---------------------------- MODULE Spec2Model ----------------------------
(***************************************************************************)
(* Model of ip-port/scripts/compare-v3-rankings.py: the reproduced V2      *)
(* (additive) and V3 (multiplicative) scoring formulas and their           *)
(* normalizers.                                                            *)
(*                                                                         *)
(* Number representation.  Python floats are modelled in fixed point:      *)
(*   - a raw metric value x is the integer 10*x          (tenths),         *)
(*   - a weight w is the integer 1000*w                  (thousandths),    *)
(*   - a normalized value, a floor, a multiplier u is Unit*u,              *)
(*   - a V2 score s (0..100 points) is Unit*s,                             *)
(*   - a V3 score is kept exactly, as a base-Unit numeral of NLimbs        *)
(*     limbs (least significant first) counting 1/Unit^4 points, because   *)
(*     a product of four factor scores does not fit TLC's integers.        *)
(* Divisions round down (\div); sqrt and the powers round down to 1/Unit.  *)
(* A Python value is a record: Missing (the key is not in the dict),       *)
(* None (the key holds null) or Num(n).  A call returns a number, None, or *)
(* Raised (an exception left the function).                                *)
(***************************************************************************)
EXTENDS Integers, Sequences, FiniteSets, TLC

VARIABLES pc, patent, cap_cc, arg, ret, edits

vars == <<pc, patent, cap_cc, arg, ret, edits>>

Unit == 100 * 100
NLimbs == 3 + 3

----------------------------------------------------------------------------
(* Python values *)

Missing == [k |-> "missing", n |-> 0]
None == [k |-> "none", n |-> 0]
Num(n) == [k |-> "num", n |-> n]
Raised == [k |-> "raise", n |-> 0]
IsNum(x) == x.k = "num"

Min(a, b) == IF a <= b THEN a ELSE b
Max(a, b) == IF a >= b THEN a ELSE b

(* dict.get(key, default): Missing gives the default, a stored null gives None *)
Get(d, f, dflt) == IF d[f].k = "missing" THEN dflt ELSE d[f]

----------------------------------------------------------------------------
(* Fixed-point arithmetic *)

(* a*b/Unit rounded down, without an intermediate above 2^31 *)
FMul(a, b) == (a \div Unit) * b + ((a % Unit) * b) \div Unit

RECURSIVE ISqrtIn(_, _, _)
ISqrtIn(n, lo, hi) ==
    IF lo >= hi THEN lo
    ELSE LET mid == (lo + hi + 1) \div 2
         IN IF mid * mid <= n THEN ISqrtIn(n, mid, hi) ELSE ISqrtIn(n, lo, mid - 1)

(* floor(sqrt(n)) for 0 <= n < 2^31 *)
ISqrt(n) == ISqrtIn(n, 0, 46340)

(* Unit * sqrt(r / Unit) *)
FSqrt(r) == ISqrt(r * Unit)

(* Unit * sqrt(v / max_val): the root of v * Unit^2 / max_val, rounded down *)
FSqrtRatio(v, max_val) ==
    ISqrt(((v * Unit) \div max_val) * Unit + (((v * Unit) % max_val) * Unit) \div max_val)

(* Exact naturals as base-Unit numerals, least significant limb first *)
BigOf(n) == [i \in 1..NLimbs |-> IF i = 1 THEN n % Unit
                                 ELSE IF i = 2 THEN n \div Unit ELSE 0]

RECURSIVE BigMulIn(_, _, _, _)
BigMulIn(a, k, i, carry) ==
    IF i > NLimbs THEN << >>
    ELSE LET t == a[i] * k + carry
         IN << t % Unit >> \o BigMulIn(a, k, i + 1, t \div Unit)

(* a * k for a small natural k *)
BigMul(a, k) == BigMulIn(a, k, 1, 0)

RECURSIVE BigAddIn(_, _, _, _)
BigAddIn(a, b, i, carry) ==
    IF i > NLimbs THEN << >>
    ELSE LET t == a[i] + b[i] + carry
         IN << t % Unit >> \o BigAddIn(a, b, i + 1, t \div Unit)

BigAdd(a, b) == BigAddIn(a, b, 1, 0)

RECURSIVE BigDivIn(_, _, _, _)
BigDivIn(a, k, i, rem) ==
    IF i < 1 THEN << >>
    ELSE LET t == rem * Unit + a[i]
         IN BigDivIn(a, k, i - 1, t % k) \o << t \div k >>

(* a / k rounded down, for a small natural k > 0 *)
BigDiv(a, k) == BigDivIn(a, k, NLimbs, 0)

RECURSIVE BigCmpIn(_, _, _)
BigCmpIn(a, b, i) ==
    IF i < 1 THEN 0
    ELSE IF a[i] < b[i] THEN -1
    ELSE IF a[i] > b[i] THEN 1
    ELSE BigCmpIn(a, b, i - 1)

BigLeq(a, b) == BigCmpIn(a, b, NLimbs) <= 0
BigZero == BigOf(0)

(* Unit * (r/Unit)^0.8: the largest x with x^5 <= r^4 * Unit, 0 <= r <= Unit *)
RECURSIVE Pow08In(_, _, _)
Pow08In(r, lo, hi) ==
    IF lo >= hi THEN lo
    ELSE LET mid == (lo + hi + 1) \div 2
             lhs == BigMul(BigMul(BigMul(BigMul(BigOf(mid), mid), mid), mid), mid)
             rhs == BigMul(BigMul(BigMul(BigMul(BigOf(r), r), r), r), Unit)
         IN IF BigLeq(lhs, rhs) THEN Pow08In(r, mid, hi) ELSE Pow08In(r, lo, mid - 1)

Pow08(r) == Pow08In(r, 0, Unit)

(* Unit * (years/15)^0.8 for years in tenths, 0..150: the power, tabulated once *)
Pow08Years == [y \in 0..150 |-> Pow08((y * Unit) \div 150)]

(* Unit * (r/Unit)^1.5 *)
Pow15(r) == FMul(r, FSqrt(r))

(* Unit * log2(x / 10) for x >= 10 (x in tenths), by repeated squaring *)
RECURSIVE Log2Frac(_, _, _)
Log2Frac(y, bit, n) ==
    IF n = 0 \/ bit = 0 THEN 0
    ELSE LET y2 == FMul(y, y)
         IN IF y2 >= 2 * Unit
            THEN bit + Log2Frac(y2 \div 2, bit \div 2, n - 1)
            ELSE Log2Frac(y2, bit \div 2, n - 1)

RECURSIVE Log2In(_, _)
Log2In(y, whole) ==
    IF y >= 2 * Unit THEN Log2In(y \div 2, whole + 1)
    ELSE whole * Unit + Log2Frac(y, Unit \div 2, 13)

FLog2(x) == Log2In((x * Unit) \div 10, 0)


----------------------------------------------------------------------------
(* OLD V2 FORMULA: normalizers.  max_val is in tenths like the value. *)

v2_normalize_sqrt(value, max_val) ==
    IF value.k # "num" \/ value.n <= 0 THEN Num(0)
    ELSE Num(Min(Unit, FSqrtRatio(value.n, max_val)))

v2_normalize_linear(value, max_val) ==
    IF value.k # "num" THEN Num(0)
    ELSE Num(Min(Unit, (value.n * Unit) \div max_val))

v2_normalize_years(years) ==
    IF years.k # "num" \/ years.n <= 0 THEN Num(0)
    ELSE IF years.n >= 150 THEN Num(Unit)
    ELSE Num(Pow15((years.n * Unit) \div 150))

v2_normalize_score(value) ==
    IF value.k # "num" THEN None
    ELSE Num((value.n * Unit) \div 50)

(* v2_year_multiplier without the years <= 0 case: 0.3 at and below 0 years *)
v2_year_multiplier_no_zero_case(years) ==
    IF years.k # "num" THEN 0
    ELSE IF years.n >= 150 THEN Unit
    ELSE (3 * Unit) \div 10 + (7 * Pow08Years[Max(0, years.n)]) \div 10

(* v2_year_multiplier with the 0.3 offset left out *)
v2_year_multiplier_no_offset(years) ==
    IF years.k # "num" \/ years.n <= 0 THEN 0
    ELSE IF years.n >= 150 THEN Unit
    ELSE (7 * Pow08Years[years.n]) \div 10

v2_year_multiplier(years) ==
    IF years.k # "num" \/ years.n <= 0 THEN 0
    ELSE IF years.n >= 150 THEN Unit
    ELSE (3 * Unit) \div 10 + (7 * Pow08Years[years.n]) \div 10

(* The year multiplier inside compute_new_executive (years is a number) *)
new_year_mult(years) ==
    LET years_factor == Min(150, Max(0, years))
    IN (3 * Unit) \div 10 + (7 * Pow08Years[years_factor]) \div 10

(* fc_norm inside compute_new_executive: min(1.0, math.sqrt(fc) / 30.0).  *)
(* math.sqrt raises ValueError on a negative number, TypeError on None.    *)
new_fc_norm(fc) ==
    IF fc.k # "num" \/ fc.n < 0 THEN Raised
    ELSE Num(Min(Unit, FSqrtRatio(fc.n, 9000)))

----------------------------------------------------------------------------
(* OLD V3 STAKEHOLDER FORMULA: normalization configs and v3_normalize *)

Step(t, v) == [threshold |-> t, value |-> v]
Tier(mn, mx, b, s) == [min |-> mn, max |-> mx, baseValue |-> b, slope |-> s]
Cfg(type, mx, steps, tiers) == [type |-> type, max |-> mx, steps |-> steps, tiers |-> tiers]

Linear(mx) == Cfg("linear", mx, << >>, << >>)
Sqrt(mx) == Cfg("sqrt", mx, << >>, << >>)
Log(mx) == Cfg("log", mx, << >>, << >>)
Stepped(steps) == Cfg("stepped", 0, steps, << >>)
Tiered(tiers) == Cfg("tiered_continuous", 0, << >>, tiers)

CITATIONS_AGGRESSIVE ==
    Tiered(<< Tier(0, 10, 50, 1450), Tier(10, 30, 1500, 3500), Tier(30, 80, 5000, 2500),
              Tier(80, 200, 7500, 1800), Tier(200, 1000, 9300, 700) >>)

CITATIONS_STANDARD ==
    Tiered(<< Tier(0, 10, 100, 1400), Tier(10, 30, 1500, 3000), Tier(30, 80, 4500, 2500),
              Tier(80, 200, 7000, 2000), Tier(200, 1000, 9000, 1000) >>)

YEARS_LITIGATION ==
    Stepped(<< Step(100, 10000), Step(70, 8500), Step(50, 6000), Step(40, 4000),
               Step(30, 2500), Step(0, 1000) >>)

YEARS_CONSERVATIVE ==
    Stepped(<< Step(120, 10000), Step(90, 8500), Step(70, 6500), Step(50, 4000),
               Step(30, 2000), Step(0, 1000) >>)

YEARS_LICENSING ==
    Stepped(<< Step(80, 10000), Step(50, 8000), Step(30, 5500), Step(0, 2500) >>)

YEARS_CORPORATE ==
    Stepped(<< Step(100, 10000), Step(70, 8000), Step(50, 6000), Step(30, 3500),
               Step(0, 1500) >>)

YEARS_EXECUTIVE ==
    Stepped(<< Step(100, 10000), Step(70, 8000), Step(50, 5500), Step(30, 3000),
               Step(0, 1200) >>)

SCORE5 == Cfg("score5", 0, << >>, << >>)

(* sorted(steps, key=threshold, reverse=True): a stable insertion sort on a copy *)
RECURSIVE InsertDesc(_, _)
InsertDesc(s, sorted) ==
    IF sorted = << >> THEN << s >>
    ELSE IF Head(sorted).threshold >= s.threshold
         THEN << Head(sorted) >> \o InsertDesc(s, Tail(sorted))
         ELSE << s >> \o sorted

RECURSIVE SortedDesc(_)
SortedDesc(steps) ==
    IF steps = << >> THEN << >>
    ELSE InsertDesc(steps[Len(steps)], SortedDesc(SubSeq(steps, 1, Len(steps) - 1)))

(* The stepped scan with a strict comparison: v > step["threshold"] *)
RECURSIVE FirstStepAboveThreshold(_, _)
FirstStepAboveThreshold(v, steps) ==
    IF steps = << >> THEN 0
    ELSE IF v > Head(steps).threshold THEN Head(steps).value
    ELSE FirstStepAboveThreshold(v, Tail(steps))

RECURSIVE FirstStep(_, _)
FirstStep(v, steps) ==
    IF steps = << >> THEN 0
    ELSE IF v >= Head(steps).threshold THEN Head(steps).value
    ELSE FirstStep(v, Tail(steps))

(* The tier scan with a strict lower bound: v > tier["min"] and v < tier["max"] *)
RECURSIVE FirstTierAboveMin(_, _, _)
FirstTierAboveMin(v, tiers, i) ==
    IF i > Len(tiers)
    THEN LET last_tier == tiers[Len(tiers)]
         IN IF v >= last_tier.max THEN last_tier.baseValue + last_tier.slope ELSE 0
    ELSE LET tier == tiers[i]
         IN IF v > tier.min /\ v < tier.max
            THEN LET progress == ((v - tier.min) * Unit) \div (tier.max - tier.min)
                 IN tier.baseValue + FMul(progress, tier.slope)
            ELSE FirstTierAboveMin(v, tiers, i + 1)

RECURSIVE FirstTier(_, _, _)
FirstTier(v, tiers, i) ==
    IF i > Len(tiers)
    THEN LET last_tier == tiers[Len(tiers)]
         IN IF v >= last_tier.max THEN last_tier.baseValue + last_tier.slope ELSE 0
    ELSE LET tier == tiers[i]
         IN IF v >= tier.min /\ v < tier.max
            THEN LET progress == ((v - tier.min) * Unit) \div (tier.max - tier.min)
                 IN tier.baseValue + FMul(progress, tier.slope)
            ELSE FirstTier(v, tiers, i + 1)

(* The score5 branch with the scale inverted: 5 is worst, 1 is best *)
V3Score5Inverted(v) == Max(0, Min(Unit, ((50 - v) * Unit) \div 40))

(* The score5 branch: max(0, min(1.0, (v - 1) / 4.0)) *)
V3Score5(v) == Max(0, Min(Unit, ((v - 10) * Unit) \div 40))

(* The linear branch with the lower clamp left out: min(1.0, v / max) *)
V3LinearNoFloor(v, config) == Min(Unit, (v * Unit) \div config.max)

(* The linear branch: min(1.0, max(0, v / max)) *)
V3Linear(v, config) == Min(Unit, Max(0, (v * Unit) \div config.max))

(* value is a Python value, default a number in tenths; the result is in 1/Unit. *)
(* An unknown type returns v itself (tenths of the raw value, as Unit*v/10).     *)
v3_normalize(value, config, default) ==
    LET v == IF value.k = "num" THEN value.n ELSE default
    IN CASE config.type = "linear" -> V3Linear(v, config)
         [] config.type = "sqrt" -> Min(Unit, FSqrtRatio(Max(0, v), config.max))
         [] config.type = "log" ->
                IF v <= 0 THEN 0
                ELSE Min(Unit, (FLog2(v + 10) * Unit) \div FLog2(config.max + 10))
         [] config.type = "stepped" -> FirstStep(v, SortedDesc(config.steps))
         [] config.type = "tiered_continuous" -> FirstTier(v, config.tiers, 1)
         [] config.type = "score5" -> V3Score5(v)
         [] OTHER -> (v * Unit) \div 10


----------------------------------------------------------------------------
(* The item (patent) metric set *)

QuantFields == <<"competitor_citations", "competitor_count", "forward_citations",
                 "years_remaining">>
RatingFields == <<"eligibility_score", "validity_score", "claim_breadth",
                  "enforcement_clarity", "design_around_difficulty",
                  "market_relevance_score", "ipr_risk_score", "prosecution_quality_score">>
Range(seq) == {seq[i] : i \in DOMAIN seq}
Fields == Range(QuantFields) \cup Range(RatingFields)

----------------------------------------------------------------------------
(* OLD V2 FORMULA: profiles and scoring *)

(* A weight map; a key the profile does not hold has weight 0 (weights.get) *)
Weights(cc, cnt, fc, yr, el, va, cb, ec, mr, ipr, pq) ==
    [f \in Fields |->
        CASE f = "competitor_citations" -> cc
          [] f = "competitor_count" -> cnt
          [] f = "forward_citations" -> fc
          [] f = "years_remaining" -> yr
          [] f = "eligibility_score" -> el
          [] f = "validity_score" -> va
          [] f = "claim_breadth" -> cb
          [] f = "enforcement_clarity" -> ec
          [] f = "market_relevance_score" -> mr
          [] f = "ipr_risk_score" -> ipr
          [] f = "prosecution_quality_score" -> pq
          [] OTHER -> 0]

V2_PROFILES ==
    [aggressive |-> Weights(250, 100, 50, 50, 150, 100, 50, 100, 100, 25, 25),
     moderate |-> Weights(150, 50, 100, 50, 150, 150, 100, 100, 100, 25, 25),
     conservative |-> Weights(100, 50, 50, 50, 200, 200, 100, 100, 50, 50, 50)]

V2_ALWAYS_PRESENT == {"competitor_citations", "competitor_count", "forward_citations",
                      "years_remaining"}

(* The set V2_OPTIONAL_FIELDS, in an iteration order *)
V2_OPTIONAL_FIELDS ==
    <<"eligibility_score", "validity_score", "claim_breadth", "enforcement_clarity",
      "market_relevance_score", "ipr_risk_score", "prosecution_quality_score">>

(* One "if weights.get(f): score += w*norm; weight_sum += w" step on acc = <<score, weight_sum>> *)
V2AddAlways(acc, w, norm) ==
    IF w # 0 THEN << acc[1] + w * norm.n, acc[2] + w >> ELSE acc

(* The optional loop with the weight of an absent rating counted all the same *)
RECURSIVE V2AddOptionalCountAbsent(_, _, _, _)
V2AddOptionalCountAbsent(acc, patent_, weights, i) ==
    IF i > Len(V2_OPTIONAL_FIELDS) THEN acc
    ELSE LET field == V2_OPTIONAL_FIELDS[i]
             w == weights[field]
             norm == v2_normalize_score(patent_[field])
             next == IF w # 0 /\ patent_[field].k = "num" /\ norm.k = "num"
                     THEN << acc[1] + w * norm.n, acc[2] + w >>
                     ELSE << acc[1], acc[2] + w >>
         IN V2AddOptionalCountAbsent(next, patent_, weights, i + 1)

(* The loop "for field in V2_OPTIONAL_FIELDS", from index i on *)
RECURSIVE V2AddOptional(_, _, _, _)
V2AddOptional(acc, patent_, weights, i) ==
    IF i > Len(V2_OPTIONAL_FIELDS) THEN acc
    ELSE LET field == V2_OPTIONAL_FIELDS[i]
             w == weights[field]
             norm == v2_normalize_score(patent_[field])
             next == IF w # 0 /\ patent_[field].k = "num" /\ norm.k = "num"
                     THEN << acc[1] + w * norm.n, acc[2] + w >>
                     ELSE acc
         IN V2AddOptional(next, patent_, weights, i + 1)

(* v2_base_score(patent, weights, cap_cc): Num(score) or Raised *)
v2_base_score(patent_, weights, cap) ==
    LET cc0 == Get(patent_, "competitor_citations", Num(0))
    IN IF cap.k = "num" /\ cc0.k # "num" THEN Raised
       ELSE
       LET cc == IF cap.k = "num" THEN Num(Min(cc0.n, cap.n)) ELSE cc0
           a1 == V2AddAlways(<<0, 0>>, weights["competitor_citations"],
                             v2_normalize_sqrt(cc, 500))
           a2 == V2AddAlways(a1, weights["competitor_count"],
                             v2_normalize_linear(Get(patent_, "competitor_count", Num(0)), 100))
           a3 == V2AddAlways(a2, weights["forward_citations"],
                             v2_normalize_sqrt(Get(patent_, "forward_citations", Num(0)), 5000))
           a4 == V2AddAlways(a3, weights["years_remaining"],
                             v2_normalize_years(Get(patent_, "years_remaining", Num(0))))
           a5 == V2AddOptional(a4, patent_, weights, 1)
       IN IF a5[2] > 0 THEN Num((a5[1] \div a5[2]) * 100) ELSE Num(0)

V2Names == <<"aggressive", "moderate", "conservative">>

(* compute_old_v2 with the year_multiplier entry stored before the mean is *)
(* taken, so that sum(scores.values()) includes it                        *)
compute_old_v2_mean_after_ym(patent_, cap) ==
    LET base == [name \in Range(V2Names) |-> v2_base_score(patent_, V2_PROFILES[name], cap)]
        ym == v2_year_multiplier(Get(patent_, "years_remaining", Num(0)))
    IN IF \E name \in Range(V2Names) : base[name].k = "raise" THEN Raised
       ELSE LET sc == [name \in Range(V2Names) |-> FMul(base[name].n, ym)]
            IN [k |-> "scores", n |-> 0,
                s |-> [aggressive |-> sc["aggressive"], moderate |-> sc["moderate"],
                       conservative |-> sc["conservative"],
                       unified |-> (sc["aggressive"] + sc["moderate"] + sc["conservative"]
                                    + ym) \div 3,
                       year_multiplier |-> ym]]

(* compute_old_v2(patent, cap_cc): the dict of scores, or Raised *)
compute_old_v2(patent_, cap) ==
    LET base == [name \in Range(V2Names) |-> v2_base_score(patent_, V2_PROFILES[name], cap)]
        ym == v2_year_multiplier(Get(patent_, "years_remaining", Num(0)))
    IN IF \E name \in Range(V2Names) : base[name].k = "raise" THEN Raised
       ELSE LET sc == [name \in Range(V2Names) |-> FMul(base[name].n, ym)]
            IN [k |-> "scores", n |-> 0,
                s |-> [aggressive |-> sc["aggressive"], moderate |-> sc["moderate"],
                       conservative |-> sc["conservative"],
                       unified |-> (sc["aggressive"] + sc["moderate"] + sc["conservative"]) \div 3,
                       year_multiplier |-> ym]]

----------------------------------------------------------------------------
(* OLD V3 STAKEHOLDER FORMULA: profiles and scoring *)

Metric(field, weight, normalize, has_default, default) ==
    [field |-> field, weight |-> weight, normalize |-> normalize,
     has_default |-> has_default, default |-> default]
Factor(name, floor, metrics) == [name |-> name, floor |-> floor, metrics |-> metrics]
Profile(id, factors) == [id |-> id, factors |-> factors]

V3_ip_lit_aggressive ==
    Profile("ip-lit-aggressive", <<
        Factor("MarketOpportunity", 200, <<
            Metric("competitor_citations", 600, CITATIONS_AGGRESSIVE, FALSE, 0),
            Metric("competitor_count", 200, Sqrt(100), FALSE, 0),
            Metric("forward_citations", 80, Sqrt(4000), FALSE, 0),
            Metric("market_relevance_score", 120, SCORE5, TRUE, 32) >>),
        Factor("LegalMerit", 1500, <<
            Metric("eligibility_score", 350, SCORE5, TRUE, 30),
            Metric("validity_score", 350, SCORE5, TRUE, 30),
            Metric("claim_breadth", 150, SCORE5, TRUE, 30),
            Metric("prosecution_quality_score", 150, SCORE5, TRUE, 30) >>),
        Factor("CollectionYield", 2000, <<
            Metric("enforcement_clarity", 400, SCORE5, TRUE, 30),
            Metric("design_around_difficulty", 350, SCORE5, TRUE, 30),
            Metric("ipr_risk_score", 250, SCORE5, TRUE, 40) >>),
        Factor("Timeline", 1200, <<
            Metric("years_remaining", 1000, YEARS_LITIGATION, FALSE, 0) >>) >>)

V3_ip_lit_balanced ==
    Profile("ip-lit-balanced", <<
        Factor("MarketEvidence", 120, <<
            Metric("competitor_citations", 750, CITATIONS_AGGRESSIVE, FALSE, 0),
            Metric("competitor_count", 150, Linear(80), FALSE, 0),
            Metric("market_relevance_score", 100, SCORE5, TRUE, 30) >>),
        Factor("LegalStrength", 1700, <<
            Metric("eligibility_score", 300, SCORE5, TRUE, 30),
            Metric("validity_score", 300, SCORE5, TRUE, 30),
            Metric("claim_breadth", 200, SCORE5, TRUE, 30),
            Metric("prosecution_quality_score", 200, SCORE5, TRUE, 30) >>),
        Factor("EnforcementViability", 2500, <<
            Metric("enforcement_clarity", 350, SCORE5, TRUE, 30),
            Metric("design_around_difficulty", 300, SCORE5, TRUE, 30),
            Metric("ipr_risk_score", 350, SCORE5, TRUE, 40) >>),
        Factor("TimelineValue", 1500, <<
            Metric("years_remaining", 1000, YEARS_LITIGATION, FALSE, 0) >>) >>)

V3_ip_lit_conservative ==
    Profile("ip-lit-conservative", <<
        Factor("LegalFoundation", 3000, <<
            Metric("eligibility_score", 300, SCORE5, TRUE, 28),
            Metric("validity_score", 300, SCORE5, TRUE, 28),
            Metric("prosecution_quality_score", 250, SCORE5, TRUE, 28),
            Metric("claim_breadth", 150, SCORE5, TRUE, 30) >>),
        Factor("MarketValidation", 500, <<
            Metric("competitor_citations", 650, CITATIONS_STANDARD, FALSE, 0),
            Metric("competitor_count", 200, Linear(80), FALSE, 0),
            Metric("forward_citations", 150, Sqrt(3000), FALSE, 0) >>),
        Factor("RiskMitigation", 3500, <<
            Metric("ipr_risk_score", 400, SCORE5, TRUE, 35),
            Metric("enforcement_clarity", 350, SCORE5, TRUE, 30),
            Metric("design_around_difficulty", 250, SCORE5, TRUE, 30) >>),
        Factor("TimelineMargin", 2000, <<
            Metric("years_remaining", 1000, YEARS_CONSERVATIVE, FALSE, 0) >>) >>)

V3_licensing ==
    Profile("licensing", <<
        Factor("LicenseePool", 500, <<
            Metric("competitor_citations", 450, CITATIONS_STANDARD, FALSE, 0),
            Metric("competitor_count", 300, Sqrt(100), FALSE, 0),
            Metric("forward_citations", 250, Sqrt(4000), FALSE, 0) >>),
        Factor("NegotiationLeverage", 2000, <<
            Metric("claim_breadth", 300, SCORE5, TRUE, 30),
            Metric("design_around_difficulty", 300, SCORE5, TRUE, 30),
            Metric("enforcement_clarity", 250, SCORE5, TRUE, 30),
            Metric("ipr_risk_score", 150, SCORE5, TRUE, 40) >>),
        Factor("Credibility", 2000, <<
            Metric("eligibility_score", 400, SCORE5, TRUE, 30),
            Metric("validity_score", 400, SCORE5, TRUE, 30),
            Metric("prosecution_quality_score", 200, SCORE5, TRUE, 30) >>),
        Factor("TermValue", 2000, <<
            Metric("years_remaining", 1000, YEARS_LICENSING, FALSE, 0) >>) >>)

V3_corporate_ma ==
    Profile("corporate-ma", <<
        Factor("StrategicValue", 300, <<
            Metric("competitor_citations", 550, CITATIONS_AGGRESSIVE, FALSE, 0),
            Metric("forward_citations", 250, Sqrt(5000), FALSE, 0),
            Metric("competitor_count", 200, Linear(100), FALSE, 0) >>),
        Factor("DefensiveStrength", 2000, <<
            Metric("claim_breadth", 350, SCORE5, TRUE, 30),
            Metric("design_around_difficulty", 350, SCORE5, TRUE, 30),
            Metric("market_relevance_score", 300, SCORE5, TRUE, 30) >>),
        Factor("AssetQuality", 2500, <<
            Metric("eligibility_score", 300, SCORE5, TRUE, 30),
            Metric("validity_score", 300, SCORE5, TRUE, 30),
            Metric("prosecution_quality_score", 200, SCORE5, TRUE, 30),
            Metric("ipr_risk_score", 200, SCORE5, TRUE, 40) >>),
        Factor("LifecycleValue", 1500, <<
            Metric("years_remaining", 1000, YEARS_CORPORATE, FALSE, 0) >>) >>)

V3_executive ==
    Profile("executive", <<
        Factor("MarketPosition", 200, <<
            Metric("competitor_citations", 650, CITATIONS_AGGRESSIVE, FALSE, 0),
            Metric("forward_citations", 200, Sqrt(5000), FALSE, 0),
            Metric("market_relevance_score", 150, SCORE5, TRUE, 30) >>),
        Factor("PortfolioQuality", 2200, <<
            Metric("eligibility_score", 250, SCORE5, TRUE, 30),
            Metric("validity_score", 250, SCORE5, TRUE, 30),
            Metric("claim_breadth", 250, SCORE5, TRUE, 30),
            Metric("prosecution_quality_score", 250, SCORE5, TRUE, 30) >>),
        Factor("MonetizationPotential", 2000, <<
            Metric("competitor_count", 350, Sqrt(100), FALSE, 0),
            Metric("enforcement_clarity", 350, SCORE5, TRUE, 30),
            Metric("design_around_difficulty", 300, SCORE5, TRUE, 30) >>),
        Factor("AssetLongevity", 1800, <<
            Metric("years_remaining", 1000, YEARS_EXECUTIVE, FALSE, 0) >>) >>)

V3_PROFILES == << V3_ip_lit_aggressive, V3_ip_lit_balanced, V3_ip_lit_conservative, V3_licensing, V3_corporate_ma, V3_executive >>

(* The inner loop with the metric's configured default ignored (always 0) *)
RECURSIVE V3MetricsNoDefault(_, _, _, _, _)
V3MetricsNoDefault(acc, patent_, metrics, cap, i) ==
    IF i > Len(metrics) THEN acc
    ELSE LET metric == metrics[i]
             raw0 == Get(patent_, metric.field, None)
             raw == IF metric.field = "competitor_citations" /\ cap.k = "num" /\ raw0.k = "num"
                    THEN Num(Min(raw0.n, cap.n)) ELSE raw0
             normalized == v3_normalize(raw, metric.normalize, 0)
         IN V3MetricsNoDefault(<< acc[1] + metric.weight * normalized, acc[2] + metric.weight >>,
                               patent_, metrics, cap, i + 1)

(* The inner loop over factor["metrics"]: acc = <<weighted_sum, total_weight>> *)
RECURSIVE V3Metrics(_, _, _, _, _)
V3Metrics(acc, patent_, metrics, cap, i) ==
    IF i > Len(metrics) THEN acc
    ELSE LET metric == metrics[i]
             raw0 == Get(patent_, metric.field, None)
             raw == IF metric.field = "competitor_citations" /\ cap.k = "num" /\ raw0.k = "num"
                    THEN Num(Min(raw0.n, cap.n)) ELSE raw0
             normalized == v3_normalize(raw, metric.normalize, metric.default)
         IN V3Metrics(<< acc[1] + metric.weight * normalized, acc[2] + metric.weight >>,
                      patent_, metrics, cap, i + 1)

(* One factor's score with the floor left out *)
V3FactorScoreNoFloor(patent_, factor, cap) ==
    LET acc == V3Metrics(<<0, 0>>, patent_, factor.metrics, cap, 1)
    IN IF acc[2] > 0 THEN acc[1] \div acc[2] ELSE 0

(* One factor's score: the weighted average, floored *)
V3FactorScore(patent_, factor, cap) ==
    LET acc == V3Metrics(<<0, 0>>, patent_, factor.metrics, cap, 1)
        score == IF acc[2] > 0 THEN acc[1] \div acc[2] ELSE 0
    IN Max(factor.floor, score)

RECURSIVE BigProduct(_, _, _)
BigProduct(big, scores, i) ==
    IF i > Len(scores) THEN big ELSE BigProduct(BigMul(big, scores[i]), scores, i + 1)

(* lines 781-803: the factor loop, one score per factor in catalog order *)
RECURSIVE V3FactorScores(_, _, _, _)
V3FactorScores(patent_, factors, cap, i) ==
    IF i > Len(factors) THEN << >>
    ELSE << V3FactorScore(patent_, factors[i], cap) >>
         \o V3FactorScores(patent_, factors, cap, i + 1)

(* lines 783, 803, 806: final = 100 * the product of the factor scores; final    *)
(* counts 1/Unit^4 points (1.0 is Unit^0 before the first factor).              *)
V3Final(factor_scores) ==
    [final |-> BigMul(BigProduct(BigOf(1), factor_scores, 1), 100),
     factor_scores |-> factor_scores]

(* compute_v3_profile_score(patent, profile, cap_cc) = (final, factor_scores) *)
compute_v3_profile_score(patent_, profile, cap) ==
    V3Final(V3FactorScores(patent_, profile.factors, cap, 1))

RECURSIVE BigSum(_, _)
BigSum(bigs, i) == IF i > Len(bigs) THEN BigZero ELSE BigAdd(bigs[i], BigSum(bigs, i + 1))

(* lines 812-815: the final score of every profile, in catalog order *)
RECURSIVE V3ProfileScores(_, _, _)
V3ProfileScores(patent_, cap, i) ==
    IF i > Len(V3_PROFILES) THEN << >>
    ELSE << compute_v3_profile_score(patent_, V3_PROFILES[i], cap).final >>
         \o V3ProfileScores(patent_, cap, i + 1)

(* line 816: consensus = the mean of the profile scores *)
V3Consensus(profile_scores) ==
    [profiles |-> profile_scores,
     consensus |-> BigDiv(BigSum(profile_scores, 1), Len(V3_PROFILES))]

(* compute_old_v3(patent, cap_cc): profile scores and their mean *)
compute_old_v3(patent_, cap) == V3Consensus(V3ProfileScores(patent_, cap, 1))

----------------------------------------------------------------------------
(* Calls and their results *)

Arg(fn, v, cfg, default, profile) ==
    [fn |-> fn, v |-> v, cfg |-> cfg, default |-> default, profile |-> profile]
NoArg == Arg("", None, SCORE5, 0, "")

Ret(k, n, s) == [k |-> k, n |-> n, s |-> s]
NoRet == Ret("noret", 0, << >>)
OfValue(x) == Ret(x.k, x.n, << >>)

EmptyItem == [f \in Fields |-> Missing]

----------------------------------------------------------------------------
(* Specification SpecNormalize: one call of one normalizer on one input *)

(* Raw inputs in tenths: negative, zero, fractional, tier and step boundaries, *)
(* and values far above every configured max.                                 *)
NormNumbers ==
    {-50, -10, -1, 0, 1, 5, 9, 10, 11, 20, 29, 30, 32, 40, 45, 50, 60, 69, 70, 75, 80,
     90, 100, 120, 149, 150, 199, 200, 300, 500, 999, 1000, 1500}
NormValues == {None} \cup {Num(n) : n \in NormNumbers}

(* Tier tables that are not in the catalog: a jump at the boundary 1 (0.5 is *)
(* followed by 0.8), and a gap between 1 and 3 followed by a zero-width tier *)
MisauthoredTierTables ==
    {Tiered(<< Tier(0, 10, 0, 5000), Tier(10, 20, 8000, 2000) >>),
     Tiered(<< Tier(0, 10, 0, 5000), Tier(30, 30, 5000, 0), Tier(30, 100, 5000, 5000) >>)}

V3Configs ==
    {CITATIONS_AGGRESSIVE, CITATIONS_STANDARD, YEARS_LITIGATION, YEARS_CONSERVATIVE,
     YEARS_LICENSING, YEARS_CORPORATE, YEARS_EXECUTIVE, SCORE5,
     Sqrt(100), Sqrt(3000), Sqrt(4000), Sqrt(5000), Linear(80), Linear(100), Log(1000)}
    \cup MisauthoredTierTables
V3Defaults == {0, 28, 30, 32, 35, 40}

NormArgs ==
    {Arg("v3_normalize", v, c, d, "") : v \in NormValues, c \in V3Configs, d \in V3Defaults}
    \cup {Arg("v2_normalize_sqrt", v, c, 0, "") : v \in NormValues, c \in {Sqrt(500), Sqrt(5000)}}
    \cup {Arg("v2_normalize_linear", v, Linear(100), 0, "") : v \in NormValues}
    \cup {Arg(fn, v, SCORE5, 0, "") :
            fn \in {"v2_normalize_years", "v2_normalize_score", "v2_year_multiplier"},
            v \in NormValues}
    \cup {Arg("new_year_mult", Num(n), SCORE5, 0, "") : n \in NormNumbers}
    \cup {Arg("new_fc_norm", v, Sqrt(9000), 0, "") : v \in NormValues}

NormInit ==
    /\ pc = "call"
    /\ arg \in NormArgs
    /\ ret = NoRet
    /\ patent = EmptyItem
    /\ cap_cc = None
    /\ edits = 0

Return(r) ==
    /\ pc' = "returned"
    /\ ret' = r
    /\ UNCHANGED <<arg, patent, cap_cc, edits>>

CallV3Normalize ==
    /\ pc = "call" /\ arg.fn = "v3_normalize"
    /\ Return(Ret("num", v3_normalize(arg.v, arg.cfg, arg.default), << >>))

CallV2NormalizeSqrt ==
    /\ pc = "call" /\ arg.fn = "v2_normalize_sqrt"
    /\ Return(OfValue(v2_normalize_sqrt(arg.v, arg.cfg.max)))

CallV2NormalizeLinear ==
    /\ pc = "call" /\ arg.fn = "v2_normalize_linear"
    /\ Return(OfValue(v2_normalize_linear(arg.v, arg.cfg.max)))

CallV2NormalizeYears ==
    /\ pc = "call" /\ arg.fn = "v2_normalize_years"
    /\ Return(OfValue(v2_normalize_years(arg.v)))

CallV2NormalizeScore ==
    /\ pc = "call" /\ arg.fn = "v2_normalize_score"
    /\ Return(OfValue(v2_normalize_score(arg.v)))

CallV2YearMultiplier ==
    /\ pc = "call" /\ arg.fn = "v2_year_multiplier"
    /\ Return(Ret("num", v2_year_multiplier(arg.v), << >>))

CallNewYearMult ==
    /\ pc = "call" /\ arg.fn = "new_year_mult"
    /\ Return(Ret("num", new_year_mult(arg.v.n), << >>))

CallNewFcNorm ==
    /\ pc = "call" /\ arg.fn = "new_fc_norm"
    /\ Return(OfValue(new_fc_norm(arg.v)))

NormNext ==
    \/ CallV3Normalize
    \/ CallV2NormalizeSqrt
    \/ CallV2NormalizeLinear
    \/ CallV2NormalizeYears
    \/ CallV2NormalizeScore
    \/ CallV2YearMultiplier
    \/ CallNewYearMult
    \/ CallNewFcNorm

SpecNormalize == NormInit /\ [][NormNext]_vars

----------------------------------------------------------------------------
(* Properties of the normalizers and year multipliers, under SpecNormalize *)

Returned(fn) == pc = "returned" /\ arg.fn = fn

InUnitInterval(x) == 0 <= x /\ x <= Unit

(* C3: for every normalization of the catalog (linear, sqrt, log, stepped,   *)
(* tiered_continuous, score5) and every numeric input - negative, zero, far  *)
(* above the configured max - v3_normalize returns v with 0 <= v <= 1.       *)
C3_V3NormalizeInUnitInterval ==
    Returned("v3_normalize") => InUnitInterval(ret.n)

(* A negative raw value went through the linear normalization and came out 0 *)
C3_NegativeLinearClamped ==
    /\ Returned("v3_normalize")
    /\ arg.cfg = Linear(80) /\ arg.v = Num(-50)
    /\ ret.n = 0

(* C4: every V2 normalizer (sqrt, linear, years, score = value/5) returns a    *)
(* value in [0,1], or the absent signal for a missing rating, for every numeric *)
(* input; in particular a negative input to the linear normalizer gives 0.     *)
C4_V2NormalizersInUnitInterval ==
    /\ (\/ Returned("v2_normalize_sqrt") \/ Returned("v2_normalize_linear")
        \/ Returned("v2_normalize_years"))
       => (ret.k = "num" /\ InUnitInterval(ret.n))
    /\ Returned("v2_normalize_score")
       => IF arg.v.k = "num" THEN ret.k = "num" /\ InUnitInterval(ret.n)
                             ELSE ret.k = "none"
    /\ (Returned("v2_normalize_linear") /\ arg.v.k = "num" /\ arg.v.n < 0)
       => ret.n = 0

(* C11: every sqrt or log normalization of a zero or negative input yields 0  *)
(* and never raises: v2_normalize_sqrt, the sqrt and log branches of          *)
(* v3_normalize, and the forward-citation sqrt inside compute_new_executive.  *)
C11_SqrtLogOfNonPositiveIsZero ==
    (/\ \/ Returned("v2_normalize_sqrt")
        \/ Returned("v3_normalize") /\ arg.cfg.type \in {"sqrt", "log"}
        \/ Returned("new_fc_norm")
     /\ arg.v.k = "num" /\ arg.v.n <= 0)
    => (ret.k = "num" /\ ret.n = 0)

YearMultiplierFloor == (3 * Unit) \div 10

(* C7 as stated: the year multiplier is within [0.3, 1.0] for every value of  *)
(* remaining years, 0 and negative included, is monotone non-decreasing, and  *)
(* is 1.0 from 15 years on; for v2_year_multiplier and for the multiplier     *)
(* inside compute_new_executive.                                             *)
C7_YearMultiplierBounded ==
    /\ (Returned("v2_year_multiplier") /\ arg.v.k = "num")
       => /\ YearMultiplierFloor <= ret.n /\ ret.n <= Unit
          /\ arg.v.n >= 150 => ret.n = Unit
          /\ \A m \in NormNumbers :
                m <= arg.v.n => v2_year_multiplier(Num(m)) <= ret.n
    /\ Returned("new_year_mult")
       => /\ YearMultiplierFloor <= ret.n /\ ret.n <= Unit
          /\ arg.v.n >= 150 => ret.n = Unit
          /\ \A m \in NormNumbers : m <= arg.v.n => new_year_mult(m) <= ret.n

(* C7, amended: v2_year_multiplier is 0 for remaining years <= 0 or absent and *)
(* within [0.3, 1.0] for remaining years > 0; the multiplier inside            *)
(* compute_new_executive is within [0.3, 1.0] for every value; both are        *)
(* monotone non-decreasing and 1.0 from 15 years on.                           *)
C7_YearMultiplierZeroOrBounded ==
    /\ Returned("v2_year_multiplier")
       => /\ (arg.v.k # "num" \/ arg.v.n <= 0) => ret.n = 0
          /\ (arg.v.k = "num" /\ arg.v.n > 0)
             => (YearMultiplierFloor <= ret.n /\ ret.n <= Unit)
          /\ (arg.v.k = "num" /\ arg.v.n >= 150) => ret.n = Unit
          /\ \A m \in NormNumbers :
                (arg.v.k = "num" /\ m <= arg.v.n)
                => v2_year_multiplier(Num(m)) <= ret.n
    /\ Returned("new_year_mult")
       => /\ YearMultiplierFloor <= ret.n /\ ret.n <= Unit
          /\ arg.v.n >= 150 => ret.n = Unit
          /\ \A m \in NormNumbers : m <= arg.v.n => new_year_mult(m) <= ret.n

(* v2_year_multiplier was called with 0 remaining years and returned 0 *)
C7_ZeroYearsGivesZero ==
    /\ Returned("v2_year_multiplier")
    /\ arg.v = Num(0)
    /\ ret.n = 0

(* The number v3_normalize works on: the value, or the default for None *)
EffectiveInput == IF arg.v.k = "num" THEN arg.v.n ELSE arg.default

SteppedCatalog ==
    {YEARS_LITIGATION, YEARS_CONSERVATIVE, YEARS_LICENSING, YEARS_CORPORATE, YEARS_EXECUTIVE}

(* C17: for every stepped table of the catalog, v3_normalize returns the value *)
(* of the step with the highest threshold <= the input, returns 0 when the     *)
(* input is below every threshold, and is non-decreasing in its input.         *)
C17_SteppedHighestThresholdAndMonotone ==
    (Returned("v3_normalize") /\ arg.cfg \in SteppedCatalog)
    => LET steps == arg.cfg.steps
           reached == {i \in DOMAIN steps : steps[i].threshold <= EffectiveInput}
       IN /\ reached = {} => ret.n = 0
          /\ reached # {}
             => \E i \in reached :
                  /\ \A j \in reached : steps[j].threshold <= steps[i].threshold
                  /\ ret.n = steps[i].value
          /\ \A x \in NormNumbers :
                x <= EffectiveInput
                => v3_normalize(Num(x), arg.cfg, arg.default) <= ret.n

(* YEARS_LITIGATION at exactly 7 years: the step of threshold 7 applies *)
C17_InputOnAThreshold ==
    /\ Returned("v3_normalize")
    /\ arg.cfg = YEARS_LITIGATION /\ arg.v = Num(70)
    /\ ret.n = 8500

TierCatalog == {CITATIONS_AGGRESSIVE, CITATIONS_STANDARD}

(* Contiguous [min, max) ranges in ascending order, none empty, each tier's *)
(* baseValue + slope equal to the next tier's baseValue                     *)
TiersWellAuthored(tiers) ==
    /\ \A i \in DOMAIN tiers : tiers[i].min < tiers[i].max
    /\ \A i \in 1..(Len(tiers) - 1) :
          /\ tiers[i].max = tiers[i + 1].min
          /\ tiers[i].baseValue + tiers[i].slope = tiers[i + 1].baseValue

(* C18: both catalog tier tables are contiguous ascending [min, max) ranges    *)
(* with baseValue + slope equal to the next baseValue, so tiered_continuous    *)
(* has no jump at the boundaries 1, 3, 8, 20, is non-decreasing on inputs >= 0 *)
(* and returns the last tier's baseValue + slope from the last max (100) on.   *)
C18_CatalogTiersContinuousAndMonotone ==
    /\ \A c \in TierCatalog :
          /\ TiersWellAuthored(c.tiers)
          /\ {c.tiers[i].max : i \in 1..(Len(c.tiers) - 1)} = {10, 30, 80, 200}
          /\ c.tiers[1].min = 0 /\ c.tiers[Len(c.tiers)].max = 1000
    /\ (Returned("v3_normalize") /\ arg.cfg \in TierCatalog)
       => LET tiers == arg.cfg.tiers
              last_tier == tiers[Len(tiers)]
          IN /\ \A i \in DOMAIN tiers :
                   /\ EffectiveInput = tiers[i].min => ret.n = tiers[i].baseValue
                   /\ (tiers[i].min <= EffectiveInput /\ EffectiveInput < tiers[i].max)
                      => /\ tiers[i].baseValue <= ret.n
                         /\ ret.n <= tiers[i].baseValue + tiers[i].slope
                   /\ EffectiveInput = tiers[i].max
                      => ret.n = tiers[i].baseValue + tiers[i].slope
             /\ EffectiveInput >= last_tier.max
                => ret.n = last_tier.baseValue + last_tier.slope
             /\ \A x \in NormNumbers :
                   (0 <= x /\ x <= EffectiveInput)
                   => v3_normalize(Num(x), arg.cfg, arg.default) <= ret.n

(* CITATIONS_AGGRESSIVE at the boundary 3: the value is the second tier's *)
(* baseValue + slope and the third tier's baseValue                       *)
C18_InputOnATierBoundary ==
    /\ Returned("v3_normalize")
    /\ arg.cfg = CITATIONS_AGGRESSIVE /\ arg.v = Num(30)
    /\ ret.n = 5000

(* C19: a tiered_continuous table whose adjacent tiers are misauthored (a jump *)
(* between baseValue + slope and the next baseValue, a gap, an overlap, a      *)
(* zero-width tier, ranges out of order) is flagged when it is evaluated and   *)
(* is never silently used to produce a score.                                  *)
C19_MisauthoredTiersAreFlagged ==
    (/\ Returned("v3_normalize")
     /\ arg.cfg.type = "tiered_continuous"
     /\ ~TiersWellAuthored(arg.cfg.tiers))
    => ret.k = "raise"

----------------------------------------------------------------------------
(* NEW ENGINE: compute_new_executive. The item holds what the call takes from *)
(* candidate, classification, llm and the three side scores; the result is in *)
(* hundredths of a point (round(..., 2)).                                     *)

(* weights of the executive profile, in thousandths *)
NEW_WEIGHTS ==
    [Weights(250, 80, 130, 170, 50, 50, 40, 40, 50, 50, 50)
        EXCEPT !["design_around_difficulty"] = 40]

(* A sparse rating counts when it is a number from 1 to 5: (v - 1) / 4 *)
NewSparse(acc, patent_, f, weight) ==
    LET v == Get(patent_, f, Num(0))
    IN IF v.k = "num" /\ 10 <= v.n /\ v.n <= 50
       THEN << acc[1] + (((v.n - 10) * Unit) \div 40) * weight, acc[2] + weight >>
       ELSE acc

RECURSIVE NewSparseAll(_, _, _, _)
NewSparseAll(acc, patent_, fields, i) ==
    IF i > Len(fields) THEN acc
    ELSE NewSparseAll(NewSparse(acc, patent_, fields[i], NEW_WEIGHTS[fields[i]]),
                      patent_, fields, i + 1)

compute_new_executive(patent_, cap) ==
    LET cc0 == Get(patent_, "competitor_citations", Num(0))
        fc == Get(patent_, "forward_citations", Num(0))
        years == Get(patent_, "years_remaining", Num(0))
        count == Get(patent_, "competitor_count", Num(0))
    IN IF cc0.k # "num" \/ years.k # "num" \/ count.k # "num" \/ new_fc_norm(fc).k = "raise"
       THEN Raised
       ELSE LET cc == IF cap.k = "num" THEN Min(cc0.n, cap.n) ELSE cc0.n
                cc_norm == Min(Unit, (cc * Unit) \div 200)
                fc_norm == new_fc_norm(fc).n
                years_norm == Min(Unit, (years.n * Unit) \div 150)
                count_norm == Min(Unit, (count.n * Unit) \div 50)
                quant == << cc_norm * NEW_WEIGHTS["competitor_citations"]
                            + years_norm * NEW_WEIGHTS["years_remaining"]
                            + fc_norm * NEW_WEIGHTS["forward_citations"]
                            + count_norm * NEW_WEIGHTS["competitor_count"],
                            NEW_WEIGHTS["competitor_citations"] + NEW_WEIGHTS["years_remaining"]
                            + NEW_WEIGHTS["forward_citations"] + NEW_WEIGHTS["competitor_count"] >>
                acc == NewSparseAll(quant, patent_, RatingFields, 1)
                base == acc[1] \div acc[2]
            IN Num((base * new_year_mult(years.n) + Unit \div 2) \div Unit)

----------------------------------------------------------------------------
(* Specification SpecScoring: an item's metric set is filled in, then one  *)
(* scoring function is called on it.                                       *)

MaxEdits == 2

(* --cap-cc: unset, 20, or the built-in default 100 (tenths) *)
Caps == {None, Num(200), Num(1000)}

(* Synthetic weight maps beside the catalog: no weight at all, optional weights only *)
V2_SYNTHETIC ==
    [none |-> Weights(0, 0, 0, 0, 0, 0, 0, 0, 0, 0, 0),
     optional_only |-> Weights(0, 0, 0, 0, 400, 300, 0, 0, 0, 300, 0)]

V2WeightNames == {"aggressive", "moderate", "conservative", "none", "optional_only"}
V2WeightsOf(name) ==
    IF name \in DOMAIN V2_PROFILES THEN V2_PROFILES[name] ELSE V2_SYNTHETIC[name]

(* competitor-citations=50, forward-citations=500, remaining-years=15,     *)
(* competitor-count=10, every optional rating absent                       *)
ScenarioItem ==
    [f \in Fields |->
        CASE f = "competitor_citations" -> Num(500)
          [] f = "forward_citations" -> Num(5000)
          [] f = "years_remaining" -> Num(150)
          [] f = "competitor_count" -> Num(100)
          [] OTHER -> Missing]

(* A mid-range item with every rating present *)
FullItem ==
    [f \in Fields |->
        CASE f = "competitor_citations" -> Num(50)
          [] f = "forward_citations" -> Num(1000)
          [] f = "years_remaining" -> Num(75)
          [] f = "competitor_count" -> Num(30)
          [] OTHER -> Num(30)]

BaseItems == {ScenarioItem, FullItem, EmptyItem}

(* What one metric of a loaded record may hold *)
MetricValues(f) ==
    CASE f = "years_remaining" -> {None, Num(-10), Num(0), Num(40)}
      [] f = "competitor_citations" -> {None, Num(5), Num(1500)}
      [] f = "competitor_count" -> {Num(-10), Num(250)}
      [] f = "forward_citations" -> {Missing, Num(250)}
      [] f = "eligibility_score" -> {Missing, None, Num(10), Num(60)}
      [] OTHER -> {Missing, Num(10), Num(60)}

ScoreInit ==
    /\ pc = "item"
    /\ patent \in BaseItems
    /\ cap_cc \in Caps
    /\ arg = NoArg
    /\ ret = NoRet
    /\ edits = 0

(* One metric of the record is stored *)
SetMetric(f, v) ==
    /\ pc = "item"
    /\ edits < MaxEdits
    /\ patent[f] # v
    /\ patent' = [patent EXCEPT ![f] = v]
    /\ edits' = edits + 1
    /\ UNCHANGED <<pc, cap_cc, arg, ret>>

Called(fn, profile, r) ==
    /\ pc' = "returned"
    /\ arg' = Arg(fn, None, SCORE5, 0, profile)
    /\ ret' = r
    /\ UNCHANGED <<patent, cap_cc, edits>>

CallV2BaseScore(name) ==
    /\ pc = "item"
    /\ Called("v2_base_score", name, OfValue(v2_base_score(patent, V2WeightsOf(name), cap_cc)))

CallComputeOldV2 ==
    /\ pc = "item"
    /\ LET r == compute_old_v2(patent, cap_cc)
       IN Called("compute_old_v2", "", IF r.k = "raise" THEN OfValue(r) ELSE r)

CallV3ProfileScore(i) ==
    /\ pc = "item"
    /\ Called("compute_v3_profile_score", V3_PROFILES[i].id,
              Ret("v3", i, compute_v3_profile_score(patent, V3_PROFILES[i], cap_cc)))

CallComputeOldV3 ==
    /\ pc = "item"
    /\ Called("compute_old_v3", "", Ret("scores", 0, compute_old_v3(patent, cap_cc)))

CallComputeNewExecutive ==
    /\ pc = "item"
    /\ Called("compute_new_executive", "", OfValue(compute_new_executive(patent, cap_cc)))

ScoreNext ==
    \/ \E f \in Fields : \E v \in MetricValues(f) : SetMetric(f, v)
    \/ \E name \in V2WeightNames : CallV2BaseScore(name)
    \/ CallComputeOldV2
    \/ \E i \in DOMAIN V3_PROFILES : CallV3ProfileScore(i)
    \/ CallComputeOldV3
    \/ CallComputeNewExecutive

SpecScoring == ScoreInit /\ [][ScoreNext]_vars

----------------------------------------------------------------------------
(* Properties of the additive (V2) scoring, under SpecScoring *)

V2AllFields == QuantFields \o V2_OPTIONAL_FIELDS

Present(patent_, f) == patent_[f].k = "num"

(* The metrics whose weight is contributed: the always-present ones with a *)
(* non-zero weight, and the optional ones with a non-zero weight and a     *)
(* present value.                                                          *)
V2Contributes(patent_, weights, f) ==
    /\ weights[f] # 0
    /\ (f \in V2_ALWAYS_PRESENT \/ Present(patent_, f))

(* The normalized value of metric f of the item, 1/Unit *)
V2Normalized(patent_, f, cap) ==
    LET raw == Get(patent_, f, Num(0))
        cc == IF cap.k = "num" /\ raw.k = "num" THEN Num(Min(raw.n, cap.n)) ELSE raw
    IN CASE f = "competitor_citations" -> v2_normalize_sqrt(cc, 500).n
         [] f = "competitor_count" -> v2_normalize_linear(raw, 100).n
         [] f = "forward_citations" -> v2_normalize_sqrt(raw, 5000).n
         [] f = "years_remaining" -> v2_normalize_years(raw).n
         [] OTHER -> v2_normalize_score(raw).n

RECURSIVE V2WeightedSum(_, _, _, _)
V2WeightedSum(patent_, weights, cap, i) ==
    IF i > Len(V2AllFields) THEN 0
    ELSE (IF V2Contributes(patent_, weights, V2AllFields[i])
          THEN weights[V2AllFields[i]] * V2Normalized(patent_, V2AllFields[i], cap)
          ELSE 0)
         + V2WeightedSum(patent_, weights, cap, i + 1)

RECURSIVE V2ContributedWeight(_, _, _)
V2ContributedWeight(patent_, weights, i) ==
    IF i > Len(V2AllFields) THEN 0
    ELSE (IF V2Contributes(patent_, weights, V2AllFields[i])
          THEN weights[V2AllFields[i]] ELSE 0)
         + V2ContributedWeight(patent_, weights, i + 1)

(* W: the sum of the weights of the four always-present metrics *)
V2AlwaysPresentWeight(weights) ==
    weights["competitor_citations"] + weights["competitor_count"]
    + weights["forward_citations"] + weights["years_remaining"]

(* C1: v2_base_score returns 100 * (sum of weight * normalized) / (sum of       *)
(* contributed weights), the contributed weights being the non-zero weights of  *)
(* the four always-present metrics and the weights of the optional metrics with *)
(* a present value; with every optional rating absent the denominator is W; the *)
(* result is 0 when the denominator is 0 or no metric of the profile is present.*)
C1_V2BaseScoreFormula ==
    (Returned("v2_base_score") /\ ret.k = "num")
    => LET weights == V2WeightsOf(arg.profile)
           den == V2ContributedWeight(patent, weights, 1)
       IN /\ ret.n = IF den = 0 THEN 0
                     ELSE (V2WeightedSum(patent, weights, cap_cc, 1) \div den) * 100
          /\ (\A f \in Range(V2_OPTIONAL_FIELDS) : ~Present(patent, f))
             => den = V2AlwaysPresentWeight(weights)
          /\ (\A f \in Fields : weights[f] # 0 => ~Present(patent, f))
             => ret.n = 0

(* A catalog profile scored an item on which one weighted optional rating is *)
(* present and another is absent.                                           *)
C1_SomeOptionalAbsent ==
    /\ Returned("v2_base_score") /\ ret.k = "num" /\ ret.n > 0
    /\ arg.profile = "moderate"
    /\ Present(patent, "validity_score")
    /\ ~Present(patent, "eligibility_score")
    /\ V2ContributedWeight(patent, V2_PROFILES["moderate"], 1)
         < V2AlwaysPresentWeight(V2_PROFILES["moderate"]) + 650

V2ScoreNames == {"aggressive", "moderate", "conservative", "unified"}

(* C5: for every item metric set and every V2 profile, the base score of      *)
(* v2_base_score and each per-profile score and the unified score of          *)
(* compute_old_v2 lie in [0,100].                                             *)
C5_V2ScoresWithin0To100 ==
    /\ (Returned("v2_base_score") /\ ret.k = "num" /\ arg.profile \in DOMAIN V2_PROFILES)
       => (0 <= ret.n /\ ret.n <= 100 * Unit)
    /\ (Returned("compute_old_v2") /\ ret.k = "scores")
       => \A name \in V2ScoreNames : 0 <= ret.s[name] /\ ret.s[name] <= 100 * Unit

(* C6: v2_year_multiplier(years) is 0 for years <= 0 or absent, 1.0 for years   *)
(* >= 15 and 0.3 + 0.7 * (years/15)^0.8 otherwise; so for an item with          *)
(* remaining years <= 0 every profile score and the unified score of            *)
(* compute_old_v2 are exactly 0, whatever the other metrics are.                *)
C6_ZeroYearsForceZeroScores ==
    (Returned("compute_old_v2") /\ ret.k = "scores")
    => LET years == Get(patent, "years_remaining", Num(0))
       IN /\ (years.k # "num" \/ years.n <= 0)
             => /\ ret.s.year_multiplier = 0
                /\ \A name \in V2ScoreNames : ret.s[name] = 0
          /\ (years.k = "num" /\ years.n >= 150) => ret.s.year_multiplier = Unit
          /\ (years.k = "num" /\ years.n > 0 /\ years.n < 150)
             => ret.s.year_multiplier
                  = YearMultiplierFloor + (7 * Pow08((years.n * Unit) \div 150)) \div 10

(* compute_old_v2 scored an item with 0 remaining years whose other always-   *)
(* present metrics are at their maxima, and every score is 0.                 *)
C6_StrongItemZeroYears ==
    /\ Returned("compute_old_v2") /\ ret.k = "scores"
    /\ patent["years_remaining"] = Num(0)
    /\ patent["competitor_citations"] = Num(500)
    /\ patent["forward_citations"] = Num(5000)
    /\ ret.s.unified = 0

(* The score of one V2 profile: base score times the year multiplier *)
V2ProfileScore(patent_, name, cap) ==
    FMul(v2_base_score(patent_, V2_PROFILES[name], cap).n,
         v2_year_multiplier(Get(patent_, "years_remaining", Num(0))))

RECURSIVE V2ScoreSum(_, _, _)
V2ScoreSum(patent_, cap, i) ==
    IF i > Len(V2Names) THEN 0
    ELSE V2ProfileScore(patent_, V2Names[i], cap) + V2ScoreSum(patent_, cap, i + 1)

RECURSIVE V3ScoreSum(_, _, _)
V3ScoreSum(patent_, cap, i) ==
    IF i > Len(V3_PROFILES) THEN BigZero
    ELSE BigAdd(compute_v3_profile_score(patent_, V3_PROFILES[i], cap).final,
                V3ScoreSum(patent_, cap, i + 1))

(* C12: the V2 unified score of compute_old_v2 is the arithmetic mean of the   *)
(* scores of all profiles of V2_PROFILES, and the V3 consensus score of        *)
(* compute_old_v3 is the arithmetic mean of the scores of all profiles of      *)
(* V3_PROFILES; no auxiliary entry (year_multiplier, the aggregate) is in it.  *)
C12_UnifiedAndConsensusAreMeans ==
    /\ (Returned("compute_old_v2") /\ ret.k = "scores")
       => /\ \A i \in DOMAIN V2Names :
                ret.s[V2Names[i]] = V2ProfileScore(patent, V2Names[i], cap_cc)
          /\ ret.s.unified = V2ScoreSum(patent, cap_cc, 1) \div Len(V2Names)
    /\ Returned("compute_old_v3")
       => /\ Len(ret.s.profiles) = Len(V3_PROFILES)
          /\ ret.s.consensus = BigDiv(V3ScoreSum(patent, cap_cc, 1), Len(V3_PROFILES))

(* compute_old_v2 scored the mid-range item: the profile scores differ, the *)
(* year multiplier is positive and the unified score lies between them      *)
C12_UnifiedBetweenProfileScores ==
    /\ Returned("compute_old_v2") /\ ret.k = "scores"
    /\ patent = FullItem
    /\ ret.s.year_multiplier > 0
    /\ ret.s.aggressive < ret.s.unified
    /\ ret.s.unified < ret.s.conservative

(* C10: scoring never raises: for every item metric set in which any metric may *)
(* be missing or null, with or without a competitor-citation cap, v2_base_score, *)
(* compute_old_v2, compute_v3_profile_score and compute_old_v3 return a score.   *)
C10_ScoringNeverRaises ==
    pc = "returned" => ret.k # "raise"


----------------------------------------------------------------------------
(* Properties of the multiplicative (V3) scoring, under SpecScoring *)

RECURSIVE V3Floors(_, _)
V3Floors(factors, i) ==
    IF i > Len(factors) THEN << >>
    ELSE << factors[i].floor >> \o V3Floors(factors, i + 1)

(* 100 * the product of the floors of a profile, in the scale of a final score *)
V3FloorProduct(profile) == BigMul(BigProduct(BigOf(1), V3Floors(profile.factors, 1), 1), 100)

(* C2: in compute_v3_profile_score, for every catalog profile and every item, *)
(* every factor score is >= the factor's floor; so the final score is >=     *)
(* 100 * the product of the floors, and nonzero when every floor is nonzero. *)
C2_FactorScoresAtLeastFloor ==
    Returned("compute_v3_profile_score")
    => LET profile == V3_PROFILES[ret.n]
       IN /\ \A i \in DOMAIN profile.factors :
                ret.s.factor_scores[i] >= profile.factors[i].floor
          /\ BigLeq(V3FloorProduct(profile), ret.s.final)
          /\ (\A i \in DOMAIN profile.factors : profile.factors[i].floor > 0)
             => ret.s.final # BigZero

(* ip-lit-conservative scored an item without remaining years: the weighted *)
(* average of TimelineMargin is below its floor and the score is the floor  *)
C2_AverageBelowFloor ==
    /\ Returned("compute_v3_profile_score") /\ ret.n = 3
    /\ ~Present(patent, "years_remaining")
    /\ LET factor == V3_PROFILES[3].factors[4]
           acc == V3Metrics(<<0, 0>>, patent, factor.metrics, cap_cc, 1)
       IN /\ factor.name = "TimelineMargin"
          /\ acc[1] \div acc[2] < factor.floor
          /\ ret.s.factor_scores[4] = factor.floor

(* The numeric values below n that metric f may be lowered to *)
LowerValues(f, n) == {v \in MetricValues(f) : v.k = "num" /\ v.n < n}

(* C8: for every catalog profile and two items identical except that one     *)
(* metric has a lower numeric value in the second, the final score of the    *)
(* second (compute_v3_profile_score) is <= the final score of the first.     *)
C8_LoweringAMetricNeverRaisesScore ==
    (Returned("compute_v3_profile_score") /\ edits < MaxEdits)
    => \A f \in Fields :
          Present(patent, f)
          => \A v \in LowerValues(f, patent[f].n) :
                BigLeq(compute_v3_profile_score([patent EXCEPT ![f] = v],
                                                V3_PROFILES[ret.n], cap_cc).final,
                       ret.s.final)

(* ip-lit-aggressive scored the mid-range item, and the same item with the *)
(* eligibility rating lowered to 1 scores strictly less                    *)
C8_LoweredRatingScoresLess ==
    /\ Returned("compute_v3_profile_score") /\ ret.n = 1 /\ edits < MaxEdits
    /\ patent = FullItem
    /\ Num(10) \in LowerValues("eligibility_score", patent["eligibility_score"].n)
    /\ ~BigLeq(ret.s.final,
               compute_v3_profile_score([patent EXCEPT !["eligibility_score"] = Num(10)],
                                        V3_PROFILES[1], cap_cc).final)

AllAbsent(patent_, factor) ==
    \A i \in DOMAIN factor.metrics : ~Present(patent_, factor.metrics[i].field)

RECURSIVE DefaultWeightedSum(_, _)
DefaultWeightedSum(metrics, i) ==
    IF i > Len(metrics) THEN 0
    ELSE metrics[i].weight
           * v3_normalize(None, metrics[i].normalize,
                          IF metrics[i].has_default THEN metrics[i].default ELSE 0)
         + DefaultWeightedSum(metrics, i + 1)

RECURSIVE TotalWeight(_, _)
TotalWeight(metrics, i) ==
    IF i > Len(metrics) THEN 0 ELSE metrics[i].weight + TotalWeight(metrics, i + 1)

(* The weighted average of the default-substituted normalized values *)
DefaultAverage(factor) ==
    DefaultWeightedSum(factor.metrics, 1) \div TotalWeight(factor.metrics, 1)

FloorOneFifth == (2 * Unit) \div 10

(* C9 as stated: a factor whose metrics are all absent from the item and whose *)
(* floor is 0.20 has the factor score exactly 0.20.                           *)
C9_AllAbsentFactorScoresFloor ==
    Returned("compute_v3_profile_score")
    => \A i \in DOMAIN V3_PROFILES[ret.n].factors :
          LET factor == V3_PROFILES[ret.n].factors[i]
          IN (factor.floor = FloorOneFifth /\ AllAbsent(patent, factor))
             => ret.s.factor_scores[i] = FloorOneFifth

(* C9, amended: a factor whose metrics are all absent and whose floor is 0.20  *)
(* scores max(0.20, weighted average of the default-substituted normalized     *)
(* values): exactly 0.20 only when that average is <= 0.20 (TimelineMargin),   *)
(* and the average itself otherwise (CollectionYield 0.5625, TermValue 0.25).  *)
C9_AllAbsentFactorScoresMaxOfFloorAndDefaults ==
    Returned("compute_v3_profile_score")
    => \A i \in DOMAIN V3_PROFILES[ret.n].factors :
          LET factor == V3_PROFILES[ret.n].factors[i]
          IN (factor.floor = FloorOneFifth /\ AllAbsent(patent, factor))
             => /\ ret.s.factor_scores[i] = Max(FloorOneFifth, DefaultAverage(factor))
                /\ ret.s.factor_scores[i] = FloorOneFifth
                      <=> DefaultAverage(factor) <= FloorOneFifth
                /\ factor.name = "TimelineMargin" => ret.s.factor_scores[i] = 2000
                /\ factor.name = "CollectionYield" => ret.s.factor_scores[i] = 5625
                /\ factor.name = "TermValue" => ret.s.factor_scores[i] = 2500

(* ip-lit-aggressive scored an item with no metric at all: CollectionYield, *)
(* floor 0.20, scores the average of its defaults, above the floor          *)
C9_CollectionYieldAllAbsent ==
    /\ Returned("compute_v3_profile_score") /\ ret.n = 1
    /\ V3_PROFILES[1].factors[3].name = "CollectionYield"
    /\ V3_PROFILES[1].factors[3].floor = FloorOneFifth
    /\ AllAbsent(patent, V3_PROFILES[1].factors[3])
    /\ ret.s.factor_scores[3] > FloorOneFifth

----------------------------------------------------------------------------
(* ANALYSIS HELPERS and the ranking sorts of main *)

(* A scored entry of a ranking list *)
Entry(id, score) == [patent_id |-> id, score |-> score]

(* list.sort(key=score, reverse=True) placing an entry before the entries *)
(* of equal score that came earlier in the input                          *)
RECURSIVE RankInsertBeforeEqual(_, _)
RankInsertBeforeEqual(x, sorted) ==
    IF sorted = << >> THEN << x >>
    ELSE IF Head(sorted).score > x.score
         THEN << Head(sorted) >> \o RankInsertBeforeEqual(x, Tail(sorted))
         ELSE << x >> \o sorted

(* list.sort(key=score, reverse=True) is stable: an entry goes after every *)
(* earlier entry whose score is greater or equal                          *)
RECURSIVE RankInsert(_, _)
RankInsert(x, sorted) ==
    IF sorted = << >> THEN << x >>
    ELSE IF Head(sorted).score >= x.score
         THEN << Head(sorted) >> \o RankInsert(x, Tail(sorted))
         ELSE << x >> \o sorted

RECURSIVE RankSort(_)
RankSort(entries) ==
    IF entries = << >> THEN << >>
    ELSE RankInsert(entries[Len(entries)], RankSort(SubSeq(entries, 1, Len(entries) - 1)))

(* [p["patent_id"] for p in ranking] *)
RECURSIVE IdsOf(_)
IdsOf(entries) ==
    IF entries = << >> THEN << >> ELSE << Head(entries).patent_id >> \o IdsOf(Tail(entries))

(* The slice with one entry too many: list[:cutoff + 1] *)
TakeOneMore(list, cutoff) ==
    IF cutoff + 1 >= 0 THEN SubSeq(list, 1, Min(cutoff + 1, Len(list)))
    ELSE SubSeq(list, 1, Max(0, Len(list) + cutoff + 1))

(* The slice list[:cutoff] *)
Take(list, cutoff) ==
    IF cutoff >= 0 THEN SubSeq(list, 1, Min(cutoff, Len(list)))
    ELSE SubSeq(list, 1, Max(0, Len(list) + cutoff))

(* overlap_at_cutoff with the slices left out *)
overlap_at_cutoff_no_slice(list_a, list_b, cutoff) ==
    LET overlap == Range(list_a) \cap Range(list_b)
    IN << Cardinality(overlap), cutoff >>

(* overlap_at_cutoff(list_a, list_b, cutoff) = (len(overlap), cutoff) *)
overlap_at_cutoff(list_a, list_b, cutoff) ==
    LET set_a == Range(Take(list_a, cutoff))
        set_b == Range(Take(list_b, cutoff))
        overlap == set_a \cap set_b
    IN << Cardinality(overlap), cutoff >>

(* sum((a - b) ** 2 for a, b in zip(ranks_a, ranks_b)), from index i on *)
RECURSIVE SumSquaredDiff(_, _, _)
SumSquaredDiff(ranks_a, ranks_b, i) ==
    IF i > Len(ranks_a) \/ i > Len(ranks_b) THEN 0
    ELSE (ranks_a[i] - ranks_b[i]) * (ranks_a[i] - ranks_b[i])
         + SumSquaredDiff(ranks_a, ranks_b, i + 1)

RECURSIVE SumAbsDiff(_, _, _)
SumAbsDiff(ranks_a, ranks_b, i) ==
    IF i > Len(ranks_a) \/ i > Len(ranks_b) THEN 0
    ELSE Max(ranks_a[i] - ranks_b[i], ranks_b[i] - ranks_a[i])
         + SumAbsDiff(ranks_a, ranks_b, i + 1)

(* spearman with the differences not squared *)
spearman_abs_diff(ranks_a, ranks_b) ==
    LET n == Len(ranks_a)
    IN IF n < 2 THEN 0
       ELSE Unit - (6 * SumAbsDiff(ranks_a, ranks_b, 1) * Unit) \div (n * (n * n - 1))

(* spearman(ranks_a, ranks_b), in 1/Unit *)
spearman(ranks_a, ranks_b) ==
    LET n == Len(ranks_a)
        d_sq == SumSquaredDiff(ranks_a, ranks_b, 1)
    IN IF n < 2 THEN 0
       ELSE Unit - (6 * d_sq * Unit) \div (n * (n * n - 1))

----------------------------------------------------------------------------
(* Specification SpecHelpers: one ranking sort of main, or one call of an *)
(* analysis helper, on one input.                                         *)

MaxList == 3
MaxRanks == 4

HArg(fn, a, b, k) == [fn |-> fn, a |-> a, b |-> b, k |-> k]

SeqsUpTo(S, n) == UNION {[1..m -> S] : m \in 0..n}

(* The lists main sorts by descending score *)
RankingNames == {"v2_current", "v3_current", "new_scored", "old_v2", "old_v3"}

RankScores == {0, 50 * Unit, 100 * Unit}

(* Scored entries in input order; the patent id is the input position *)
RankInputs ==
    {[i \in DOMAIN sc |-> Entry(i, sc[i])] : sc \in SeqsUpTo(RankScores, MaxRanks)}

PatentIds == {"p1", "p2", "p3"}
IdLists == SeqsUpTo(PatentIds, MaxList)

(* Rank-position vectors: the permutations of 1..n *)
RankVectors ==
    UNION {{r \in [1..n -> 1..n] : \A i, j \in 1..n : r[i] = r[j] => i = j} :
             n \in 0..MaxRanks}

SortArgs == {HArg(name, entries, << >>, 0) : entries \in RankInputs, name \in RankingNames}
OverlapArgs ==
    {HArg("overlap_at_cutoff", a, b, k) :
       a \in IdLists, b \in IdLists, k \in 0..(MaxList + 1)}
SpearmanArgs == {HArg("spearman", a, b, 0) : a \in RankVectors, b \in RankVectors}

HelperInit ==
    /\ pc = "call"
    /\ \/ arg \in SortArgs
       \/ arg \in OverlapArgs
       \/ arg \in SpearmanArgs
    /\ ret = NoRet
    /\ patent = EmptyItem
    /\ cap_cc = None
    /\ edits = 0

(* ranking.sort(key=score, reverse=True); ids = [p["patent_id"] for p in ranking] *)
SortRanking ==
    /\ pc = "call" /\ arg.fn \in RankingNames
    /\ Return(Ret("list", 0, [ranking |-> RankSort(arg.a), ids |-> IdsOf(RankSort(arg.a))]))

CallOverlapAtCutoff ==
    /\ pc = "call" /\ arg.fn = "overlap_at_cutoff"
    /\ Return(Ret("pair", overlap_at_cutoff(arg.a, arg.b, arg.k)[1],
                  overlap_at_cutoff(arg.a, arg.b, arg.k)[2]))

CallSpearman ==
    /\ pc = "call" /\ arg.fn = "spearman"
    /\ Return(Ret("num", spearman(arg.a, arg.b), << >>))

HelperNext ==
    \/ SortRanking
    \/ CallOverlapAtCutoff
    \/ CallSpearman

SpecHelpers == HelperInit /\ [][HelperNext]_vars

----------------------------------------------------------------------------
(* REGRESSION CHECKS: Parts 2 and 3 of main. Every score difference is a     *)
(* bignum: V2 differences count 1/Unit points, V3 differences 1/Unit^4.      *)

Abs(x) == IF x < 0 THEN -x ELSE x

RECURSIVE BigSubIn(_, _, _, _)
BigSubIn(a, b, i, borrow) ==
    IF i > NLimbs THEN << >>
    ELSE LET t == a[i] - b[i] - borrow
         IN IF t < 0 THEN << t + Unit >> \o BigSubIn(a, b, i + 1, 1)
            ELSE << t >> \o BigSubIn(a, b, i + 1, 0)

(* abs(a - b) *)
BigAbsDiff(a, b) == IF BigLeq(a, b) THEN BigSubIn(b, a, 1, 0) ELSE BigSubIn(a, b, 1, 0)

(* tenths of a score point, as a V2 score and as a V3 score *)
V2Points(tenths) == tenths * (Unit \div 10)
V3Points(tenths) == BigMul(BigMul(BigMul(BigOf(tenths * (Unit \div 10)), Unit), Unit), Unit)

(* The tolerance 0.5 on each scale *)
V2Tolerance == BigOf(V2Points(5))
V3Tolerance == V3Points(5)

(* v2_errors[:5], v3_errors[:5] *)
ShownErrors == 5

(* One record of a check: the exported and the recomputed score, and their diff *)
Row(pid, exported, computed, diff, raised) ==
    [patent_id |-> pid, exported |-> exported, computed |-> computed, diff |-> diff,
     raised |-> raised]

(* diff < 0.5 *)
WithinTolerance(diff, tolerance) == ~BigLeq(tolerance, diff)

(* The loop of a check: count the matches, append the others to the errors *)
RECURSIVE Classify(_, _, _, _, _)
Classify(rows, tolerance, i, match_count, errors) ==
    IF i > Len(rows) THEN [match_count |-> match_count, errors |-> errors]
    ELSE IF WithinTolerance(rows[i].diff, tolerance)
         THEN Classify(rows, tolerance, i + 1, match_count + 1, errors)
         ELSE Classify(rows, tolerance, i + 1, match_count, Append(errors, rows[i]))

(* The errors sorted by diff without reverse=True: smallest first *)
RECURSIVE ErrorInsertAscending(_, _)
ErrorInsertAscending(x, sorted) ==
    IF sorted = << >> THEN << x >>
    ELSE IF BigLeq(Head(sorted).diff, x.diff)
         THEN << Head(sorted) >> \o ErrorInsertAscending(x, Tail(sorted))
         ELSE << x >> \o sorted

(* errors.sort(key=lambda x: x[3], reverse=True): stable placement of one error *)
RECURSIVE ErrorInsert(_, _)
ErrorInsert(x, sorted) ==
    IF sorted = << >> THEN << x >>
    ELSE IF BigLeq(x.diff, Head(sorted).diff)
         THEN << Head(sorted) >> \o ErrorInsert(x, Tail(sorted))
         ELSE << x >> \o sorted

RECURSIVE SortErrors(_)
SortErrors(errors) ==
    IF errors = << >> THEN << >>
    ELSE ErrorInsert(errors[Len(errors)], SortErrors(SubSeq(errors, 1, Len(errors) - 1)))

Report(check, total, match_count, errors, shown) ==
    [check |-> check, total |-> total, match_count |-> match_count, errors |-> errors,
     shown |-> shown]

(* A check that keeps its mismatches: the unified and the executive check *)
PrimaryCheck(check, rows, tolerance) ==
    LET counted == Classify(rows, tolerance, 1, 0, << >>)
        sorted == SortErrors(counted.errors)
    IN Report(check, Len(rows), counted.match_count, sorted, Take(sorted, ShownErrors))

(* A check that only counts its matches: consensus and the per-profile checks *)
CountingCheck(check, rows, tolerance) ==
    Report(check, Len(rows), Classify(rows, tolerance, 1, 0, << >>).match_count,
           << >>, << >>)

(* Metric sets as the export loaders build them: counts and years are numbers, *)
(* a rating is a number or None                                                *)
SparseExport ==
    [f \in Fields |->
        CASE f = "competitor_citations" -> Num(1500)
          [] f = "forward_citations" -> Num(5000)
          [] f = "years_remaining" -> Num(150)
          [] f = "competitor_count" -> Num(100)
          [] OTHER -> None]

ExpiredExport == [FullItem EXCEPT !["years_remaining"] = Num(0)]

(* CAP_CC: no option, the bare --cap-cc (100), --cap-cc=10 *)
RegressionCaps == {None, Num(1000), Num(100)}

(* compute_old_v2 and compute_old_v3 are pure: their results for the exported *)
(* metric sets and CAP_CC values are computed once, when the run starts, kept *)
(* in arg.scored and looked up by the loops                                   *)
Scored(metrics, cap) ==
    [metrics |-> metrics, cap |-> cap,
     v2 |-> compute_old_v2(metrics, cap), v3 |-> compute_old_v3(metrics, cap)]

ScoredExports ==
    << Scored(FullItem, None), Scored(FullItem, Num(1000)), Scored(FullItem, Num(100)),
       Scored(ExpiredExport, None), Scored(ExpiredExport, Num(1000)),
       Scored(ExpiredExport, Num(100)),
       Scored(SparseExport, None), Scored(SparseExport, Num(1000)),
       Scored(SparseExport, Num(100)) >>

ScoresIn(scored, metrics, cap) ==
    scored[CHOOSE i \in DOMAIN scored : scored[i].metrics = metrics /\ scored[i].cap = cap]

ScoresOf(metrics, cap) == ScoresIn(arg.scored, metrics, cap)

(* The rows of a V2 check: compute_old_v2(pat, cap_cc=CAP_CC)[name] against *)
(* pat["score_<name>"]                                                      *)
RECURSIVE V2Rows(_, _, _, _)
V2Rows(old_v2, name, cap, i) ==
    IF i > Len(old_v2) THEN << >>
    ELSE LET pat == old_v2[i]
             computed == ScoresOf(pat.metrics, cap).v2
             exported == pat.scores[name]
         IN << IF computed.k = "raise"
               THEN Row(pat.patent_id, exported, 0, BigZero, TRUE)
               ELSE Row(pat.patent_id, exported, computed.s[name],
                        BigOf(Abs(computed.s[name] - exported)), FALSE) >>
            \o V2Rows(old_v2, name, cap, i + 1)

V3CheckNames ==
    << "ip-lit-aggressive", "ip-lit-balanced", "ip-lit-conservative", "licensing",
       "corporate-ma", "executive" >>

(* computed[name] of compute_old_v3: a profile score or the consensus *)
V3ScoreOf(computed, name) ==
    IF name = "consensus" THEN computed.consensus
    ELSE computed.profiles[CHOOSE i \in DOMAIN V3_PROFILES : V3_PROFILES[i].id = name]

(* The rows of a V3 check: compute_old_v3(pat, cap_cc=CAP_CC)[name] against *)
(* pat["score_<name>"]                                                      *)
RECURSIVE V3Rows(_, _, _, _)
V3Rows(old_v3, name, cap, i) ==
    IF i > Len(old_v3) THEN << >>
    ELSE LET pat == old_v3[i]
             computed == V3ScoreOf(ScoresOf(pat.metrics, cap).v3, name)
             exported == pat.scores[name]
         IN << Row(pat.patent_id, exported, computed, BigAbsDiff(computed, exported), FALSE) >>
            \o V3Rows(old_v3, name, cap, i + 1)

----------------------------------------------------------------------------
(* Specification SpecRegression: the two exports are loaded, then Part 2 and *)
(* Part 3 run their checks in program order.                                 *)

MaxRecords == 6

(* A kind of exported row: its metrics, and how far (in tenths of a point) the *)
(* exported scores lie above (or, negative, below) the uncapped formula's     *)
(* scores                                                                     *)
ExportKind(metrics, primary_delta, profile_delta) ==
    [metrics |-> metrics, primary_delta |-> primary_delta, profile_delta |-> profile_delta]

ExportKinds ==
    << ExportKind(FullItem, 4, -6), ExportKind(ExpiredExport, 5, 0),
       ExportKind(SparseExport, 30, 4) >>

V2ScoresOfKind(scored, kind) ==
    LET computed == ScoresIn(scored, kind.metrics, None).v2.s
    IN [name \in {"unified", "aggressive", "moderate", "conservative"} |->
          computed[name] + V2Points(IF name = "unified" THEN kind.primary_delta
                                    ELSE kind.profile_delta)]

V3ScoresOfKind(scored, kind) ==
    LET computed == ScoresIn(scored, kind.metrics, None).v3
    IN [name \in Range(V3CheckNames) \cup {"consensus"} |->
          LET delta == IF name = "executive" THEN kind.primary_delta
                       ELSE kind.profile_delta
          IN IF delta < 0 THEN BigSubIn(V3ScoreOf(computed, name), V3Points(-delta), 1, 0)
             ELSE BigAdd(V3ScoreOf(computed, name), V3Points(delta))]

OldV2Scores(scored) ==
    << V2ScoresOfKind(scored, ExportKinds[1]), V2ScoresOfKind(scored, ExportKinds[2]),
       V2ScoresOfKind(scored, ExportKinds[3]) >>
OldV3Scores(scored) ==
    << V3ScoresOfKind(scored, ExportKinds[1]), V3ScoresOfKind(scored, ExportKinds[2]),
       V3ScoresOfKind(scored, ExportKinds[3]) >>

(* The loaded dict of an export, in file order; patent ids are the row numbers *)
RECURSIVE Export(_, _, _)
Export(kinds, scores, i) ==
    IF i > Len(kinds) THEN << >>
    ELSE << [patent_id |-> i, metrics |-> ExportKinds[kinds[i]].metrics,
             scores |-> scores[kinds[i]]] >>
         \o Export(kinds, scores, i + 1)

RegressionInit ==
    /\ \E scored \in {ScoredExports} :
       \E v2_scores \in {OldV2Scores(scored)} :
       \E v3_scores \in {OldV3Scores(scored)} :
       \E kinds \in SeqsUpTo(DOMAIN ExportKinds, MaxRecords) :
         arg = [fn |-> "main", old_v2 |-> Export(kinds, v2_scores, 1),
                old_v3 |-> Export(kinds, v3_scores, 1), scored |-> scored]
    /\ pc = "regression"
    /\ cap_cc \in RegressionCaps
    /\ ret = Ret("report", 0, << >>)
    /\ patent = EmptyItem
    /\ edits = 0

(* The number of checks of Parts 2 and 3 *)
ChecksInRun == 1 + Len(V2Names) + 2 + Len(V3CheckNames)

(* A check ran: its report line is printed; a raise ends the run *)
Checked(rows, report) ==
    /\ IF \E i \in DOMAIN rows : rows[i].raised
       THEN pc' = "raised" /\ ret' = [ret EXCEPT !.k = "raise"]
       ELSE /\ ret' = [ret EXCEPT !.s = Append(@, report)]
            /\ pc' = IF Len(ret.s) + 1 = ChecksInRun THEN "done" ELSE "regression"
    /\ UNCHANGED <<arg, patent, cap_cc, edits>>

(* Part 2, lines 1038-1051 *)
VerifyV2Unified ==
    /\ pc = "regression" /\ Len(ret.s) = 0
    /\ LET rows == V2Rows(arg.old_v2, "unified", cap_cc, 1)
       IN Checked(rows, PrimaryCheck("v2:unified", rows, V2Tolerance))

(* Part 2, lines 1054-1061 *)
VerifyV2Profile(i) ==
    /\ pc = "regression" /\ Len(ret.s) = i
    /\ LET rows == V2Rows(arg.old_v2, V2Names[i], cap_cc, 1)
       IN Checked(rows, CountingCheck(V2Names[i], rows, V2Tolerance))

(* Part 3, lines 1074-1087 *)
VerifyV3Executive ==
    /\ pc = "regression" /\ Len(ret.s) = 1 + Len(V2Names)
    /\ LET rows == V3Rows(arg.old_v3, "executive", cap_cc, 1)
       IN Checked(rows, PrimaryCheck("v3:executive", rows, V3Tolerance))

(* Part 3, lines 1090-1096 *)
VerifyV3Consensus ==
    /\ pc = "regression" /\ Len(ret.s) = 2 + Len(V2Names)
    /\ LET rows == V3Rows(arg.old_v3, "consensus", cap_cc, 1)
       IN Checked(rows, CountingCheck("consensus", rows, V3Tolerance))

(* Part 3, lines 1099-1108 *)
VerifyV3Profile(i) ==
    /\ pc = "regression" /\ Len(ret.s) = 2 + Len(V2Names) + i
    /\ LET rows == V3Rows(arg.old_v3, V3CheckNames[i], cap_cc, 1)
       IN Checked(rows, CountingCheck(V3CheckNames[i], rows, V3Tolerance))

RegressionNext ==
    \/ VerifyV2Unified
    \/ \E i \in DOMAIN V2Names : VerifyV2Profile(i)
    \/ VerifyV3Executive
    \/ VerifyV3Consensus
    \/ \E i \in DOMAIN V3CheckNames : VerifyV3Profile(i)

SpecRegression == RegressionInit /\ [][RegressionNext]_vars

----------------------------------------------------------------------------
(* Properties of the ranking sorts and the analysis helpers, under SpecHelpers *)

PositionOf(entries, id) == CHOOSE i \in DOMAIN entries : entries[i].patent_id = id

(* C13: every ranking built by main (descending sort by score of v2_current, *)
(* v3_current, new_scored and the exported populations) is stable: two items *)
(* with equal scores keep the relative order they had in the input.          *)
C13_RankingSortIsStable ==
    (pc = "returned" /\ arg.fn \in RankingNames)
    => LET out == ret.s.ranking
       IN /\ Len(out) = Len(arg.a) /\ Len(ret.s.ids) = Len(out)
          /\ \A i \in DOMAIN arg.a : \E j \in DOMAIN out : out[j] = arg.a[i]
          /\ \A i \in DOMAIN out : ret.s.ids[i] = out[i].patent_id
          /\ \A i, j \in DOMAIN out :
                i < j
                => /\ out[i].score >= out[j].score
                   /\ out[i].score = out[j].score
                      => PositionOf(arg.a, out[i].patent_id)
                           < PositionOf(arg.a, out[j].patent_id)

(* v2_current was sorted with a tie between the first and the third entry and *)
(* a higher score in between: the tied entries keep their input order         *)
C13_TieKeepsInputOrder ==
    /\ pc = "returned" /\ arg.fn = "v2_current"
    /\ Len(arg.a) = 3
    /\ arg.a[1].score = 0 /\ arg.a[2].score = 100 * Unit /\ arg.a[3].score = 0
    /\ ret.s.ids = << 2, 1, 3 >>

(* The set of ids among the first k entries of a list *)
TopIds(list, k) == {list[i] : i \in 1..Min(k, Len(list))}

NoRepeats(list) == \A i, j \in DOMAIN list : list[i] = list[j] => i = j

SameSeq(a, b) == Len(a) = Len(b) /\ \A i \in DOMAIN a : a[i] = b[i]

(* C14 as stated: overlap_at_cutoff(A, A, k) returns the overlap count k for *)
(* any list A and any k <= |A|.                                             *)
C14_SelfOverlapIsCutoff ==
    (Returned("overlap_at_cutoff") /\ SameSeq(arg.a, arg.b) /\ arg.k <= Len(arg.a))
    => ret.n = arg.k

(* C14, amended: overlap_at_cutoff(A, A, k) returns the number of distinct ids *)
(* among the first k entries of A; that is k for any list A without repeated   *)
(* ids and any k with 0 <= k <= |A|.                                           *)
C14_SelfOverlapIsDistinctTopK ==
    (Returned("overlap_at_cutoff") /\ SameSeq(arg.a, arg.b))
    => /\ ret.n = Cardinality(TopIds(arg.a, arg.k))
       /\ (NoRepeats(arg.a) /\ arg.k <= Len(arg.a)) => ret.n = arg.k

(* A list of three distinct ids was compared with itself at cutoff 2 *)
C14_DistinctListAgainstItself ==
    /\ Returned("overlap_at_cutoff")
    /\ arg.a = << "p1", "p2", "p3" >> /\ arg.b = arg.a /\ arg.k = 2
    /\ ret.n = 2

IsReverse(a, b) == Len(a) = Len(b) /\ \A i \in DOMAIN a : b[i] = a[Len(a) + 1 - i]

(* The reversal of the rank vector is its complement: a[i] + a[n+1-i] = n + 1 *)
ReversalIsComplement(a) == \A i \in DOMAIN a : a[i] + a[Len(a) + 1 - i] = Len(a) + 1

RECURSIVE SquaredDistance(_, _, _)
SquaredDistance(a, b, n) ==
    IF n = 0 THEN 0 ELSE (a[n] - b[n]) ^ 2 + SquaredDistance(a, b, n - 1)

SpearmanFormula(a, b) ==
    Unit - (6 * SquaredDistance(a, b, Len(a)) * Unit) \div (Len(a) * (Len(a) ^ 2 - 1))

(* C16 as stated: for every rank vector R of any length n, spearman(R, R) is *)
(* 1.0 and spearman of R against its exact reversal is -1.0; in general      *)
(* spearman(A, B) = 1 - 6 * sum(d_i^2) / (n * (n^2 - 1)).                    *)
C16_SpearmanSelfAndReversal ==
    Returned("spearman")
    => /\ SameSeq(arg.a, arg.b) => ret.n = Unit
       /\ IsReverse(arg.a, arg.b) => ret.n = -Unit
       /\ (Len(arg.a) = Len(arg.b) /\ Len(arg.a) >= 2)
          => ret.n = SpearmanFormula(arg.a, arg.b)

(* C16, amended: for rank vectors of length n >= 2, spearman(R, R) is 1.0,    *)
(* spearman(A, B) = 1 - 6 * sum(d_i^2) / (n * (n^2 - 1)), and spearman of R   *)
(* against its reversal is -1.0 exactly when the reversal of R is its         *)
(* complement (as for the ranking 1..n); for n < 2 spearman returns 0.0.      *)
C16_SpearmanOnLengthTwoOrMore ==
    Returned("spearman")
    => /\ Len(arg.a) < 2 => ret.n = 0
       /\ (Len(arg.a) >= 2 /\ SameSeq(arg.a, arg.b)) => ret.n = Unit
       /\ (Len(arg.a) >= 2 /\ IsReverse(arg.a, arg.b))
          => (ret.n = -Unit <=> ReversalIsComplement(arg.a))
       /\ (Len(arg.a) = Len(arg.b) /\ Len(arg.a) >= 2)
          => ret.n = SpearmanFormula(arg.a, arg.b)

(* The ranking 1, 2, 3 against 3, 2, 1 *)
C16_AscendingAgainstReversal ==
    /\ Returned("spearman")
    /\ arg.a = << 1, 2, 3 >> /\ arg.b = << 3, 2, 1 >>
    /\ ret.n = -Unit

----------------------------------------------------------------------------
(* Properties of the regression checks, under SpecRegression *)

(* The rows the k-th check of the run compares, and its tolerance *)
RowsOfCheck(k) ==
    IF k = 1 THEN V2Rows(arg.old_v2, "unified", cap_cc, 1)
    ELSE IF k <= 1 + Len(V2Names) THEN V2Rows(arg.old_v2, V2Names[k - 1], cap_cc, 1)
    ELSE IF k = 2 + Len(V2Names) THEN V3Rows(arg.old_v3, "executive", cap_cc, 1)
    ELSE IF k = 3 + Len(V2Names) THEN V3Rows(arg.old_v3, "consensus", cap_cc, 1)
    ELSE V3Rows(arg.old_v3, V3CheckNames[k - 3 - Len(V2Names)], cap_cc, 1)

ToleranceOfCheck(k) == IF k <= 1 + Len(V2Names) THEN V2Tolerance ELSE V3Tolerance

(* The checks that keep a list of mismatches: unified (Part 2), executive (Part 3) *)
ChecksWithErrorList == {1, 2 + Len(V2Names)}

RunNeverStops ==
    /\ pc \in {"regression", "done"}
    /\ ret.k = "report"
    /\ pc = "done" <=> Len(ret.s) = ChecksInRun

(* The recorded mismatches are exactly the rows of mismatched, once each, and *)
(* the shown ones are the ShownErrors largest by diff in descending order     *)
RecordedAndShown(r, rows, mismatched) ==
    /\ Len(r.errors) = Cardinality(mismatched)
    /\ r.match_count + Len(r.errors) = Len(rows)
    /\ \A i \in mismatched : Cardinality({j \in DOMAIN r.errors : r.errors[j] = rows[i]}) = 1
    /\ Len(r.shown) = Min(ShownErrors, Len(r.errors))
    /\ \A a \in DOMAIN r.shown : \E j \in DOMAIN r.errors : r.errors[j] = r.shown[a]
    /\ \A a, b \in DOMAIN r.shown : a < b => BigLeq(r.shown[b].diff, r.shown[a].diff)
    /\ \A j \in DOMAIN r.errors :
          \/ \E a \in DOMAIN r.shown : r.shown[a] = r.errors[j]
          \/ \A a \in DOMAIN r.shown : BigLeq(r.errors[j].diff, r.shown[a].diff)

(* C20 as stated: in the regression checks of Parts 2 and 3 every exported     *)
(* record is classified exactly once per checked score, as a match when the    *)
(* absolute difference of recomputed and exported score is within the 0.5      *)
(* tolerance (at most 0.5), otherwise as a mismatch recorded for the report;   *)
(* matches + mismatches = records, a mismatch never raises or stops the run,   *)
(* and the reported samples are the 5 largest by error in descending order.    *)
C20_EveryCheckRecordsMismatchesBeyondTolerance ==
    /\ RunNeverStops
    /\ \A k \in DOMAIN ret.s :
         LET r == ret.s[k]
             rows == RowsOfCheck(k)
             matched == {i \in DOMAIN rows : BigLeq(rows[i].diff, ToleranceOfCheck(k))}
         IN /\ r.total = Len(rows)
            /\ r.match_count = Cardinality(matched)
            /\ RecordedAndShown(r, rows, DOMAIN rows \ matched)

(* C20, amended: every exported record is classified exactly once per checked *)
(* score, as a match when the absolute difference is strictly below 0.5 and   *)
(* as a mismatch otherwise (a difference of exactly 0.5 is a mismatch); no    *)
(* mismatch raises or stops the run. The unified check of Part 2 and the      *)
(* executive check of Part 3 record each mismatch, so that matches +          *)
(* mismatches = records, and report the 5 largest by error in descending      *)
(* order; the consensus and per-profile checks keep the match count only.     *)
C20_RecordsClassifiedOncePerCheck ==
    /\ RunNeverStops
    /\ \A k \in DOMAIN ret.s :
         LET r == ret.s[k]
             rows == RowsOfCheck(k)
             matched == {i \in DOMAIN rows :
                           WithinTolerance(rows[i].diff, ToleranceOfCheck(k))}
         IN /\ r.total = Len(rows)
            /\ r.match_count = Cardinality(matched)
            /\ k \in ChecksWithErrorList => RecordedAndShown(r, rows, DOMAIN rows \ matched)
            /\ k \notin ChecksWithErrorList => (r.errors = << >> /\ r.shown = << >>)

(* The run ended with more unified mismatches than are shown, of different *)
(* sizes, with executive mismatches, and with matching profile scores      *)
C20_MoreMismatchesThanShown ==
    /\ pc = "done"
    /\ Len(ret.s[1].errors) > ShownErrors
    /\ ret.s[1].shown[1].diff # ret.s[1].shown[ShownErrors].diff
    /\ Len(ret.s[2 + Len(V2Names)].errors) > 0
    /\ ret.s[2].match_count > 0

----------------------------------------------------------------------------
(* DATA LOADING: the CSV export loaders. A CSV cell is a string: empty, not  *)
(* a number, an integer numeral or a decimal numeral (n in tenths); a column *)
(* the file does not have is Missing.                                       *)

EmptyText == [k |-> "str_empty", n |-> 0]
GarbageText == [k |-> "str_garbage", n |-> 0]
IntText(n) == [k |-> "str_int", n |-> n]
DecText(n) == [k |-> "str_dec", n |-> n]

(* Truncation toward zero of a number in tenths *)
Trunc(n) == IF n >= 0 THEN (n \div 10) * 10 ELSE -(((-n) \div 10) * 10)

(* float(v): ValueError on a string that is no numeral, TypeError on None *)
PyFloat(v) ==
    IF v.k \in {"num", "str_int", "str_dec"} THEN Num(v.n) ELSE Raised

(* int(v): a decimal numeral in a string is a ValueError too *)
PyInt(v) ==
    CASE v.k = "num" -> Num(Trunc(v.n))
      [] v.k = "str_int" -> Num(v.n)
      [] OTHER -> Raised

Truthy(v) ==
    CASE v.k = "num" -> v.n # 0
      [] v.k \in {"none", "str_empty"} -> FALSE
      [] OTHER -> TRUE

(* v or w *)
PyOr(v, w) == IF Truthy(v) THEN v ELSE w

(* row.get(field) and row.get(field, default) *)
RowGet(row, field, default) == IF row[field].k = "missing" THEN default ELSE row[field]

safe_float(v) ==
    IF v.k \in {"none", "str_empty"} THEN None
    ELSE IF PyFloat(v).k = "raise" THEN None ELSE PyFloat(v)

safe_int(v, default) ==
    IF v.k \in {"none", "str_empty"} THEN Num(default)
    ELSE IF PyFloat(v).k = "raise" THEN Num(default) ELSE PyInt(PyFloat(v))

(* int(row.get("rank", 0)) *)
CoerceRank(row) == PyInt(RowGet(row, "rank", Num(0)))

(* float(row.get("years_remaining", 0) or 0) *)
CoerceYears(row) == PyFloat(PyOr(RowGet(row, "years_remaining", Num(0)), Num(0)))

(* safe_int(row.get(field)) *)
CoerceCount(row, field) == safe_int(RowGet(row, field, None), 0)

(* safe_float(row.get(field)) or 0 *)
CoerceScore(row, field) == PyOr(safe_float(RowGet(row, field, None)), Num(0))

(* safe_float(row.get(field)) *)
CoerceRating(row, field) == safe_float(RowGet(row, field, None))

CountColumns == {"forward_citations", "competitor_citations", "competitor_count"}
V3ScoreColumns ==
    {"score_executive", "score_consensus", "score_ip-lit-aggressive", "score_ip-lit-balanced",
     "score_ip-lit-conservative", "score_licensing", "score_corporate-ma"}
V2ScoreColumns ==
    {"year_multiplier", "score_unified", "score_aggressive", "score_moderate",
     "score_conservative"}
RatingColumns == Range(RatingFields)

(* The numeric keys each loader stores for a row *)
LoaderColumns(loader) ==
    CASE loader = "load_old_v3_csv" ->
           {"rank", "years_remaining"} \cup CountColumns \cup V3ScoreColumns \cup RatingColumns
      [] loader = "load_old_v2_csv" ->
           {"rank", "years_remaining"} \cup CountColumns \cup V2ScoreColumns \cup RatingColumns
      [] loader = "load_old_all_scored_csv" ->
           {"years_remaining"} \cup CountColumns \cup {"score_executive", "score_consensus"}
           \cup RatingColumns

Coerce(row, column) ==
    CASE column = "rank" -> CoerceRank(row)
      [] column = "years_remaining" -> CoerceYears(row)
      [] column \in CountColumns -> CoerceCount(row, column)
      [] column \in V3ScoreColumns \cup V2ScoreColumns -> CoerceScore(row, column)
      [] OTHER -> CoerceRating(row, column)

(* patents[pid] = {...}: the dict built for one row, or the exception *)
LoadedRecord(loader, row) ==
    LET record == [column \in LoaderColumns(loader) |-> Coerce(row, column)]
    IN IF \E column \in LoaderColumns(loader) : record[column].k = "raise"
       THEN [k |-> "raise", record |-> << >>]
       ELSE [k |-> "record", record |-> record]

----------------------------------------------------------------------------
(* Specification SpecLoad: one export file is loaded row by row *)

MaxRows == 2

Loaders == {"load_old_v3_csv", "load_old_v2_csv", "load_old_all_scored_csv"}
AllColumns ==
    {"rank", "years_remaining"} \cup CountColumns \cup V3ScoreColumns \cup V2ScoreColumns
    \cup RatingColumns

(* A well-formed row: integer counts and rank, decimal years, scores and ratings *)
GoodRow ==
    [column \in AllColumns |->
        CASE column = "rank" -> IntText(10)
          [] column = "years_remaining" -> DecText(75)
          [] column \in CountColumns -> IntText(120)
          [] column \in RatingColumns -> IntText(30)
          [] OTHER -> DecText(425)]

(* What a malformed cell holds: nothing, text that is no number, a decimal *)
(* where an integer is expected, or the column is not there               *)
MalformedCells == {EmptyText, GarbageText, DecText(25), Missing}

(* Columns whose malformed cells the rows enumerate: one of each kind of coercion *)
ProbedColumns ==
    {"rank", "years_remaining", "forward_citations", "score_executive", "score_unified",
     "eligibility_score"}

ExportRows ==
    {GoodRow} \cup {[GoodRow EXCEPT ![column] = cell] :
                      column \in ProbedColumns, cell \in MalformedCells}

LoadInit ==
    /\ pc = "loading"
    /\ \E loader \in Loaders : \E rows \in SeqsUpTo(ExportRows, MaxRows) :
         arg = [fn |-> loader, rows |-> rows]
    /\ ret = Ret("patents", 0, << >>)
    /\ patent = EmptyItem
    /\ cap_cc = None
    /\ edits = 0

(* One iteration of `for row in csv.DictReader(f)`: the row's record is stored, *)
(* or the exception of a coercion leaves the loader                           *)
LoadRow(loader) ==
    /\ pc = "loading" /\ arg.fn = loader
    /\ Len(ret.s) < Len(arg.rows)
    /\ LET loaded == LoadedRecord(loader, arg.rows[Len(ret.s) + 1])
       IN IF loaded.k = "raise"
          THEN pc' = "raised" /\ ret' = [ret EXCEPT !.k = "raise"]
          ELSE pc' = "loading" /\ ret' = [ret EXCEPT !.s = Append(@, loaded.record)]
    /\ UNCHANGED <<arg, patent, cap_cc, edits>>

(* The file is exhausted: return patents *)
LoadReturn ==
    /\ pc = "loading" /\ Len(ret.s) = Len(arg.rows)
    /\ pc' = "returned"
    /\ UNCHANGED <<arg, ret, patent, cap_cc, edits>>

LoadNext ==
    \/ \E loader \in Loaders : LoadRow(loader)
    \/ LoadReturn

SpecLoad == LoadInit /\ [][LoadNext]_vars

----------------------------------------------------------------------------
(* Properties of the export loaders, under SpecLoad *)

(* C21: loading never aborts on a single malformed record: for every row in  *)
(* which any field (rank, years_remaining, a citation count, a profile score *)
(* or a rating) is empty or non-numeric, the loader coerces the field to a   *)
(* safe default (0 or absent) without raising and loads all remaining rows.  *)
C21_LoadingNeverAborts ==
    /\ pc # "raised"
    /\ pc = "returned" => Len(ret.s) = Len(arg.rows)
    /\ \A i \in DOMAIN ret.s : \A column \in LoaderColumns(arg.fn) :
          (arg.rows[i][column].k \in {"str_empty", "str_garbage", "missing"})
          => ret.s[i][column] \in {Num(0), None}

----------------------------------------------------------------------------
(* MAIN: the loading phase and the seven report parts. The file system is   *)
(* the set of sources that exist; a dataset is a set of entries keyed by    *)
(* patent id.                                                               *)

MandatorySources ==
    {"old_v3_export", "old_v2_export", "old_all_export", "candidates_file"}
OptionalSources ==
    {"classification_files", "llm_cache", "ipr_batch_dir", "ipr_cache",
     "prosecution_batch_dir", "prosecution_cache", "market_relevance_dir"}

DataEntry(pid, v) == [patent_id |-> pid, v |-> v]
Loaded(data) == [k |-> "data", data |-> data]
LoadRaised == [k |-> "raise", data |-> {}]

(* dataset.get(pid) *)
Lookup(dataset, pid) ==
    IF \E e \in dataset : e.patent_id = pid
    THEN (CHOOSE e \in dataset : e.patent_id = pid).v
    ELSE None

(* What the side sources hold when they exist: values for patent 1 only *)
StoredClassification ==
    [f \in Fields |->
        CASE f = "competitor_citations" -> Num(50)
          [] f = "competitor_count" -> Num(30)
          [] OTHER -> Missing]
LlmFields ==
    {"eligibility_score", "validity_score", "claim_breadth", "enforcement_clarity",
     "design_around_difficulty"}
StoredLlm == [f \in Fields |-> IF f \in LlmFields THEN Num(40) ELSE Missing]

(* open(path) of an export: FileNotFoundError when the file is not there *)
load_export(present, source) ==
    IF source \in present THEN Loaded({DataEntry(1, Num(0))}) ELSE LoadRaised

(* load_candidates: raises when no streaming-candidates file exists *)
load_candidates(present, candidates) ==
    IF "candidates_file" \in present
    THEN Loaded({DataEntry(i, candidates[i]) : i \in DOMAIN candidates})
    ELSE LoadRaised

load_classifications(present) ==
    IF "classification_files" \in present
    THEN Loaded({DataEntry(1, StoredClassification)}) ELSE Loaded({})

(* load_llm_scores without the llm_dir.exists() test: iterdir() raises *)
load_llm_scores_no_exists_test(present) ==
    IF "llm_cache" \in present THEN Loaded({DataEntry(1, StoredLlm)}) ELSE LoadRaised

load_llm_scores(present) ==
    IF "llm_cache" \in present THEN Loaded({DataEntry(1, StoredLlm)}) ELSE Loaded({})

(* A batch directory holding 4.0 for patent 1 and a per-patent cache holding 2.0 *)
BatchThenCache(present, batch_dir, cache_dir) ==
    LET batch == IF batch_dir \in present THEN {DataEntry(1, Num(40))} ELSE {}
    IN IF cache_dir \in present THEN Loaded({DataEntry(1, Num(20))}) ELSE Loaded(batch)

load_ipr_scores(present) == BatchThenCache(present, "ipr_batch_dir", "ipr_cache")
load_prosecution_scores(present) ==
    BatchThenCache(present, "prosecution_batch_dir", "prosecution_cache")

load_market_relevance_scores(present) ==
    IF "market_relevance_dir" \in present THEN Loaded({DataEntry(1, Num(40))}) ELSE Loaded({})

(* The loads of main in program order *)
LoaderOrder ==
    << "load_old_v3_csv", "load_old_v2_csv", "load_old_all_scored_csv", "load_candidates",
       "load_classifications", "load_llm_scores", "load_ipr_scores",
       "load_prosecution_scores", "load_market_relevance_scores" >>

CallLoader(loader, present, candidates) ==
    CASE loader = "load_old_v3_csv" -> load_export(present, "old_v3_export")
      [] loader = "load_old_v2_csv" -> load_export(present, "old_v2_export")
      [] loader = "load_old_all_scored_csv" -> load_export(present, "old_all_export")
      [] loader = "load_candidates" -> load_candidates(present, candidates)
      [] loader = "load_classifications" -> load_classifications(present)
      [] loader = "load_llm_scores" -> load_llm_scores(present)
      [] loader = "load_ipr_scores" -> load_ipr_scores(present)
      [] loader = "load_prosecution_scores" -> load_prosecution_scores(present)
      [] loader = "load_market_relevance_scores" -> load_market_relevance_scores(present)

(* A rating is stored in p only when it is a number from 1 to 5 *)
RatingOrMissing(v) == IF v.k = "num" /\ 10 <= v.n /\ v.n <= 50 THEN v ELSE Missing

(* Part 4: the metric set p built for one candidate from the loaded datasets *)
CurrentPatent(pid, cand, datasets) ==
    LET cls == Lookup(datasets["load_classifications"], pid)
        llm == Lookup(datasets["load_llm_scores"], pid)
        mr == Lookup(datasets["load_market_relevance_scores"], pid)
        ipr == Lookup(datasets["load_ipr_scores"], pid)
        pros == Lookup(datasets["load_prosecution_scores"], pid)
    IN [f \in Fields |->
          CASE f = "competitor_citations" ->
                 IF cls = None THEN Num(0) ELSE Get(cls, "competitor_citations", Num(0))
            [] f = "competitor_count" ->
                 IF cls = None THEN Num(0) ELSE Get(cls, "competitor_count", Num(0))
            [] f = "forward_citations" -> cand.forward_citations
            [] f = "years_remaining" -> cand.remaining_years
            [] f \in LlmFields ->
                 IF llm = None THEN Missing ELSE RatingOrMissing(Get(llm, f, None))
            [] f = "market_relevance_score" -> IF mr = None THEN Missing ELSE mr
            [] f = "ipr_risk_score" -> IF ipr = None THEN Missing ELSE ipr
            [] f = "prosecution_quality_score" -> IF pros = None THEN Missing ELSE pros]

CurrentPatents(datasets) ==
    {DataEntry(e.patent_id, CurrentPatent(e.patent_id, e.v, datasets)) :
        e \in datasets["load_candidates"]}

(* filtered: p["years_remaining"] >= 3 *)
Filtered(current_patents) == {e \in current_patents : e.v["years_remaining"].n >= 30}

----------------------------------------------------------------------------
(* Specification SpecRun: one run of main over a file system *)

MaxCandidates == 2

Candidate(years, fc) == [remaining_years |-> Num(years), forward_citations |-> Num(fc)]
CandidatePool == {Candidate(10, 100), Candidate(75, 400)}

NoDatasets == [loader \in Range(LoaderOrder) |-> {}]

(* ret.n counts the loads done; ret.s holds the datasets, the parts emitted, *)
(* the parts in which a score was computed, and the population of Part 4    *)
RunState(datasets, parts, scored, current_patents, raised_at) ==
    [datasets |-> datasets, parts |-> parts, scored |-> scored,
     current_patents |-> current_patents, raised_at |-> raised_at]

RunInit ==
    /\ pc = "loading"
    /\ \E present \in SUBSET (MandatorySources \cup OptionalSources) :
       \E candidates \in SeqsUpTo(CandidatePool, MaxCandidates) :
         arg = [fn |-> "main", present |-> present, candidates |-> candidates]
    /\ ret = Ret("run", 0, RunState(NoDatasets, << >>, << >>, {}, ""))
    /\ patent = EmptyItem
    /\ cap_cc = None
    /\ edits = 0

Abort(where) ==
    /\ pc' = "aborted"
    /\ ret' = [ret EXCEPT !.s.raised_at = where]

(* The next load of main *)
Load(loader) ==
    /\ pc = "loading"
    /\ ret.n < Len(LoaderOrder) /\ LoaderOrder[ret.n + 1] = loader
    /\ LET got == CallLoader(loader, arg.present, arg.candidates)
       IN IF got.k = "raise" THEN Abort(loader)
          ELSE /\ ret' = [ret EXCEPT !.n = @ + 1, !.s.datasets[loader] = got.data]
               /\ pc' = IF ret.n + 1 = Len(LoaderOrder) THEN "part1" ELSE "loading"
    /\ UNCHANGED <<arg, patent, cap_cc, edits>>

Emit(part, scores, next) ==
    /\ ret' = [ret EXCEPT !.s.parts = Append(@, part),
                          !.s.scored = IF scores THEN Append(@, part) ELSE @]
    /\ pc' = next

(* Part 1: the component metrics of the exports against the current data *)
Part1 ==
    /\ pc = "part1"
    /\ Emit(1, FALSE, "part2")
    /\ UNCHANGED <<arg, patent, cap_cc, edits>>

(* Part 2: compute_old_v2 on every record of old_v2 *)
Part2 ==
    /\ pc = "part2"
    /\ Emit(2, ret.s.datasets["load_old_v2_csv"] # {}, "part3")
    /\ UNCHANGED <<arg, patent, cap_cc, edits>>

(* Part 3: compute_old_v3 on every record of old_v3 *)
Part3 ==
    /\ pc = "part3"
    /\ Emit(3, ret.s.datasets["load_old_v3_csv"] # {}, "part4")
    /\ UNCHANGED <<arg, patent, cap_cc, edits>>

(* Part 4: current_patents is built and filtered, the three formulas score it *)
Part4 ==
    /\ pc = "part4"
    /\ ret' = [ret EXCEPT !.s.parts = Append(@, 4),
                          !.s.scored = IF ret.s.datasets["load_candidates"] # {}
                                       THEN Append(@, 4) ELSE @,
                          !.s.current_patents = CurrentPatents(ret.s.datasets)]
    /\ pc' = "part5"
    /\ UNCHANGED <<arg, patent, cap_cc, edits>>

Part5 ==
    /\ pc = "part5"
    /\ Emit(5, FALSE, "part6")
    /\ UNCHANGED <<arg, patent, cap_cc, edits>>

Part6 ==
    /\ pc = "part6"
    /\ Emit(6, FALSE, "part7")
    /\ UNCHANGED <<arg, patent, cap_cc, edits>>

(* Part 7: the availability percentages divide by len(filtered) *)
Part7 ==
    /\ pc = "part7"
    /\ IF Filtered(ret.s.current_patents) = {}
       THEN /\ pc' = "aborted"
            /\ ret' = [ret EXCEPT !.s.parts = Append(@, 7), !.s.raised_at = "part7"]
       ELSE Emit(7, FALSE, "done")
    /\ UNCHANGED <<arg, patent, cap_cc, edits>>

RunNext ==
    \/ \E loader \in Range(LoaderOrder) : Load(loader)
    \/ Part1 \/ Part2 \/ Part3 \/ Part4 \/ Part5 \/ Part6 \/ Part7

SpecRun == RunInit /\ [][RunNext]_vars

----------------------------------------------------------------------------
(* Claims about the loading phase and the order of the run *)

OptionalLoaders ==
    {"load_classifications", "load_llm_scores", "load_ipr_scores",
     "load_prosecution_scores", "load_market_relevance_scores"}

SourcesOf(loader) ==
    CASE loader = "load_classifications" -> {"classification_files"}
      [] loader = "load_llm_scores" -> {"llm_cache"}
      [] loader = "load_ipr_scores" -> {"ipr_batch_dir", "ipr_cache"}
      [] loader = "load_prosecution_scores" -> {"prosecution_batch_dir", "prosecution_cache"}
      [] loader = "load_market_relevance_scores" -> {"market_relevance_dir"}

MetricsOf(loader) ==
    CASE loader = "load_classifications" -> {"competitor_citations", "competitor_count"}
      [] loader = "load_llm_scores" -> LlmFields
      [] loader = "load_ipr_scores" -> {"ipr_risk_score"}
      [] loader = "load_prosecution_scores" -> {"prosecution_quality_score"}
      [] loader = "load_market_relevance_scores" -> {"market_relevance_score"}

SourceAbsent(loader) == SourcesOf(loader) \cap arg.present = {}

(* The loader of an absent source returned the empty dataset without raising, *)
(* and its absence is not what stops the run                                 *)
AbsentSourceLoadsEmpty(loader) ==
    /\ ret.s.raised_at # loader
    /\ ret.s.datasets[loader] = {}
    /\ (/\ MandatorySources \subseteq arg.present
        /\ \E i \in DOMAIN arg.candidates : arg.candidates[i].remaining_years.n >= 30)
       => pc # "aborted"

PartsInOrder == << 1, 2, 3, 4, 5, 6, 7 >>

(* C23: no score is computed and no part is emitted before every data source *)
(* has loaded; a run missing a mandatory input (an export or the candidates  *)
(* file) aborts before any scoring; every other run executes Parts 1 to 7 in *)
(* order, each exactly once, and terminates.                                 *)
C23_LoadsThenSevenPartsOrAbort ==
    /\ (ret.s.parts # << >> \/ ret.s.scored # << >>) => ret.n = Len(LoaderOrder)
    /\ ~(MandatorySources \subseteq arg.present)
          => /\ ret.s.parts = << >> /\ ret.s.scored = << >>
             /\ pc \in {"loading", "aborted"}
    /\ MandatorySources \subseteq arg.present
          => /\ pc # "aborted"
             /\ ret.s.parts = SubSeq(PartsInOrder, 1, Len(ret.s.parts))
             /\ pc = "done" => ret.s.parts = PartsInOrder

----------------------------------------------------------------------------
(* SIDE-SCORE LOADERS: batch files and the per-patent cache. A batch        *)
(* directory is the sequence of its files in ascending file-name order, a    *)
(* file the sequence of its records; the cache is the sequence of its files  *)
(* in the order os.listdir returns them. scores maps a patent id to Missing  *)
(* (no key), None or a number. Patent id 0 stands for a falsy id.            *)

Pids == {1, 2}

Record(pid, score) == [patent_id |-> pid, score |-> score]

NoScores == [pid \in Pids |-> Missing]

(* if pid and pid not in scores: scores[pid] = v, skipping a null v *)
StoreIfNewSkippingNull(scores, r) ==
    IF r.patent_id \in Pids /\ scores[r.patent_id] = Missing /\ r.score # None
    THEN [scores EXCEPT ![r.patent_id] = r.score] ELSE scores

(* if pid and pid not in scores: scores[pid] = r.get("ipr_risk_score") *)
StoreIfNew(scores, r) ==
    IF r.patent_id \in Pids /\ scores[r.patent_id] = Missing
    THEN [scores EXCEPT ![r.patent_id] = r.score] ELSE scores

(* load_market_relevance_scores: if v is not None: scores[pid] = v *)
StoreIfNewNonNull(scores, r) ==
    IF r.patent_id \in Pids /\ scores[r.patent_id] = Missing /\ r.score # None
    THEN [scores EXCEPT ![r.patent_id] = r.score] ELSE scores

(* for r in data.get("results", []) *)
RECURSIVE LoadRecords(_, _, _, _)
LoadRecords(scores, records, i, skip_null) ==
    IF i > Len(records) THEN scores
    ELSE LoadRecords(IF skip_null THEN StoreIfNewNonNull(scores, records[i])
                     ELSE StoreIfNew(scores, records[i]),
                     records, i + 1, skip_null)

(* The batch files taken in ascending file-name order *)
RECURSIVE LoadBatchOldestFirst(_, _, _, _)
LoadBatchOldestFirst(scores, files, i, skip_null) ==
    IF i = 0 THEN scores
    ELSE LoadRecords(LoadBatchOldestFirst(scores, files, i - 1, skip_null),
                     files[i], 1, skip_null)

(* for fname in sorted(files, reverse=True): the greatest file name first; *)
(* i is the number of files still to read                                  *)
RECURSIVE LoadBatch(_, _, _, _)
LoadBatch(scores, files, i, skip_null) ==
    IF i = 0 THEN scores
    ELSE LoadBatch(LoadRecords(scores, files[i], 1, skip_null), files, i - 1, skip_null)

(* for fname in os.listdir(cache_dir): scores[pid] = data.get(score) *)
RECURSIVE LoadCache(_, _, _)
LoadCache(scores, cache, i) ==
    IF i > Len(cache) THEN scores
    ELSE LoadCache([scores EXCEPT ![cache[i].patent_id] = cache[i].score], cache, i + 1)

(* load_ipr_scores and load_prosecution_scores over the directories' contents *)
LoadBatchAndCache(batch, cache) ==
    LoadCache(LoadBatch(NoScores, batch, Len(batch), FALSE), cache, 1)

(* load_market_relevance_scores over the directory's contents *)
LoadBatchNonNull(batch) == LoadBatch(NoScores, batch, Len(batch), TRUE)

----------------------------------------------------------------------------
(* Specification SpecSideScores: one call of one side-score loader *)

MaxBatchFiles == 2
MaxBatchRecords == 2
MaxCacheFiles == 2

BatchRecords == {Record(pid, score) : pid \in {0} \cup Pids, score \in {None, Num(40)}}
CacheRecords == {Record(pid, score) : pid \in Pids, score \in {None, Num(50)}}

BatchDirs == SeqsUpTo(SeqsUpTo(BatchRecords, MaxBatchRecords), MaxBatchFiles)
CacheDirs == SeqsUpTo(CacheRecords, MaxCacheFiles)

SideScoresInit ==
    /\ pc = "call"
    /\ \/ \E fn \in {"load_ipr_scores", "load_prosecution_scores"} :
          \E batch \in BatchDirs : \E cache \in CacheDirs :
             arg = [fn |-> fn, batch |-> batch, cache |-> cache]
       \/ \E batch \in BatchDirs :
             arg = [fn |-> "load_market_relevance_scores", batch |-> batch, cache |-> << >>]
    /\ ret = Ret("scores", 0, NoScores)
    /\ patent = EmptyItem
    /\ cap_cc = None
    /\ edits = 0

ReturnScores(scores) ==
    /\ ret' = [ret EXCEPT !.s = scores]
    /\ pc' = "returned"
    /\ UNCHANGED <<arg, patent, cap_cc, edits>>

CallLoadIprScores ==
    /\ pc = "call" /\ arg.fn = "load_ipr_scores"
    /\ ReturnScores(LoadBatchAndCache(arg.batch, arg.cache))

CallLoadProsecutionScores ==
    /\ pc = "call" /\ arg.fn = "load_prosecution_scores"
    /\ ReturnScores(LoadBatchAndCache(arg.batch, arg.cache))

CallLoadMarketRelevanceScores ==
    /\ pc = "call" /\ arg.fn = "load_market_relevance_scores"
    /\ ReturnScores(LoadBatchNonNull(arg.batch))

SideScoresNext ==
    \/ CallLoadIprScores
    \/ CallLoadProsecutionScores
    \/ CallLoadMarketRelevanceScores

SpecSideScores == SideScoresInit /\ [][SideScoresNext]_vars

(* The records of a sequence that carry the id *)
Holding(records, pid) == {i \in DOMAIN records : records[i].patent_id = pid}
FilesHolding(batch, pid) == {j \in DOMAIN batch : Holding(batch[j], pid) # {}}
FirstOf(S) == CHOOSE i \in S : \A j \in S : i <= j
LastOf(S) == CHOOSE i \in S : \A j \in S : j <= i

(* The first record for the id in the most recent batch file that holds it *)
NewestBatchRecord(batch, pid) ==
    LET file == batch[LastOf(FilesHolding(batch, pid))]
    IN file[FirstOf(Holding(file, pid))]

BatchAndCacheCall == pc = "returned" /\ arg.fn \in {"load_ipr_scores", "load_prosecution_scores"}

(* C24: after load_ipr_scores or load_prosecution_scores the value of an id *)
(* is the value of its cache record when one exists; otherwise the value of *)
(* its first record in the batch file with the greatest name that holds    *)
(* the id; an id in no file has no value.                                   *)
C24_CacheThenNewestBatchFile ==
    BatchAndCacheCall =>
        \A pid \in Pids :
            ret.s[pid] =
                IF Holding(arg.cache, pid) # {}
                THEN arg.cache[LastOf(Holding(arg.cache, pid))].score
                ELSE IF FilesHolding(arg.batch, pid) # {}
                     THEN NewestBatchRecord(arg.batch, pid).score
                     ELSE Missing

(* An id held by an older and a newer batch file with different values, twice *)
(* in the newer file, and not in the cache                                    *)
C24_OlderFileAndDuplicateLose ==
    /\ BatchAndCacheCall
    /\ Len(arg.batch) = 2 /\ Len(arg.batch[1]) = 1 /\ Len(arg.batch[2]) = 2
    /\ Holding(arg.cache, 1) = {} /\ Holding(arg.cache, 2) # {}
    /\ arg.batch[1][1] = Record(1, None)
    /\ arg.batch[2] = << Record(1, Num(40)), Record(1, None) >>
    /\ ret.s[1] = Num(40)

(* C30: precedence alone picks the winning record in load_ipr_scores and    *)
(* load_prosecution_scores: a cache record with a null score replaces a     *)
(* non-null batch score, and a null score in the most recent batch file is  *)
(* kept over a non-null score in an older file. load_market_relevance_scores *)
(* skips null scores: the value is the newest non-null one, never null.     *)
C30_NullWinsByPrecedence ==
    pc = "returned" =>
        \A pid \in Pids :
            IF arg.fn = "load_market_relevance_scores"
            THEN ret.s[pid] =
                    LoadBatch(NoScores,
                              [j \in DOMAIN arg.batch |->
                                  SelectSeq(arg.batch[j], LAMBDA r : r.score # None)],
                              Len(arg.batch), FALSE)[pid]
                 /\ ret.s[pid] # None
            ELSE /\ (Holding(arg.cache, pid) # {}
                     /\ arg.cache[LastOf(Holding(arg.cache, pid))].score = None)
                       => ret.s[pid] = None
                 /\ (Holding(arg.cache, pid) = {} /\ FilesHolding(arg.batch, pid) # {}
                     /\ NewestBatchRecord(arg.batch, pid).score = None)
                       => ret.s[pid] = None

(* A null cache record over a non-null batch score, and a null score in the *)
(* newest batch file over a non-null score in the older one                 *)
C30_NullReplacesNonNull ==
    /\ BatchAndCacheCall
    /\ arg.cache = << Record(1, None) >>
    /\ arg.batch = << << Record(1, Num(40)), Record(2, Num(40)) >>, << Record(2, None) >> >>
    /\ ret.s[1] = None /\ ret.s[2] = None

----------------------------------------------------------------------------
(* WHAT SCORING WRITES. The catalog and the item are objects shared by       *)
(* every call; each operator below is the object after one call.             *)

(* cc = min(cc, cap_cc) stored back under patent["competitor_citations"] *)
ItemAfterCapStored(patent_, cap) ==
    LET cc == patent_["competitor_citations"]
    IN IF cap.k = "num" /\ cc.k = "num"
       THEN [patent_ EXCEPT !["competitor_citations"] = Num(Min(cc.n, cap.n))]
       ELSE patent_

(* v2_base_score and compute_v3_profile_score read patent.get(...); the     *)
(* capped cc and raw value are locals                                       *)
ItemAfterScoring(patent_, cap) == patent_

(* v3_normalize: steps = sorted(config["steps"], ...) builds a new list; the *)
(* tiers are only iterated                                                   *)
ConfigAfterNormalize(config) == config

(* The loops over V2_PROFILES.items() and V3_PROFILES only read *)
CatalogAfterScoring(catalog) == catalog

----------------------------------------------------------------------------
(* Specification SpecFrame: a sequence of scoring calls on one item *)

MaxCalls == 2

(* A step table written in ascending order beside one of the catalog *)
AscendingSteps == Stepped(<< Step(0, 1000), Step(30, 2500), Step(100, 10000) >>)

FrameItems == {FullItem, ScenarioItem, SparseExport}
FrameConfigs == {YEARS_LITIGATION, AscendingSteps}

Results(normalize, v2_base, old_v2, v3_profile, old_v3) ==
    [v3_normalize |-> normalize, v2_base_score |-> v2_base, compute_old_v2 |-> old_v2,
     compute_v3_profile_score |-> v3_profile, compute_old_v3 |-> old_v3]

FrameInit ==
    /\ pc = "scoring"
    /\ patent \in FrameItems
    /\ cap_cc \in Caps
    /\ \E config \in FrameConfigs :
          arg = [fn |-> "scoring", item |-> patent, config |-> config, authored |-> config,
                 V2_PROFILES |-> V2_PROFILES, V3_PROFILES |-> V3_PROFILES]
    /\ ret = Ret("results", 0, Results(<< >>, << >>, << >>, << >>, << >>))
    /\ edits = 0

Scored1(fn, result) ==
    /\ ret.n < MaxCalls
    /\ ret' = [ret EXCEPT !.n = @ + 1, !.s[fn] = Append(@, result)]
    /\ patent' = IF fn = "v3_normalize" THEN patent ELSE ItemAfterScoring(patent, cap_cc)
    /\ arg' = [arg EXCEPT
                 !.config = IF fn = "v3_normalize" THEN ConfigAfterNormalize(@) ELSE @,
                 !.V2_PROFILES = IF fn \in {"v2_base_score", "compute_old_v2"}
                                 THEN CatalogAfterScoring(@) ELSE @,
                 !.V3_PROFILES = IF fn \in {"compute_v3_profile_score", "compute_old_v3"}
                                 THEN CatalogAfterScoring(@) ELSE @]
    /\ UNCHANGED <<pc, cap_cc, edits>>

FrameV3Normalize ==
    /\ pc = "scoring"
    /\ Scored1("v3_normalize", v3_normalize(patent["years_remaining"], arg.config, 0))

FrameV2BaseScore(name) ==
    /\ pc = "scoring"
    /\ Scored1("v2_base_score",
            [profile |-> name, score |-> v2_base_score(patent, arg.V2_PROFILES[name], cap_cc)])

FrameComputeOldV2 ==
    /\ pc = "scoring"
    /\ Scored1("compute_old_v2",
            LET r == compute_old_v2(patent, cap_cc) IN IF r.k = "raise" THEN OfValue(r) ELSE r)

FrameV3ProfileScore(i) ==
    /\ pc = "scoring"
    /\ Scored1("compute_v3_profile_score",
            [profile |-> i, score |-> compute_v3_profile_score(patent, arg.V3_PROFILES[i], cap_cc)])

FrameComputeOldV3 ==
    /\ pc = "scoring"
    /\ Scored1("compute_old_v3", compute_old_v3(patent, cap_cc))

FrameNext ==
    \/ FrameV3Normalize
    \/ \E name \in DOMAIN V2_PROFILES : FrameV2BaseScore(name)
    \/ FrameComputeOldV2
    \/ \E i \in DOMAIN V3_PROFILES : FrameV3ProfileScore(i)
    \/ FrameComputeOldV3

SpecFrame == FrameInit /\ [][FrameNext]_vars

(* Two results of the same call are equal *)
SameCallSameResult(results) ==
    \A i, j \in DOMAIN results :
        LET a == results[i]
            b == results[j]
        IN ("profile" \in DOMAIN a /\ a.profile # b.profile) \/ a = b

----------------------------------------------------------------------------
(* PART 6: print_distribution. Scores are in hundredths of a point; a line   *)
(* that is not printed is Missing in the report.                             *)

(* sum(top), added up by halves *)
RECURSIVE SumRange(_, _, _)
SumRange(seq, lo, hi) ==
    IF lo > hi THEN 0
    ELSE IF lo = hi THEN seq[lo]
    ELSE LET mid == (lo + hi) \div 2
         IN SumRange(seq, lo, mid) + SumRange(seq, mid + 1, hi)

SumOf(seq, n) == SumRange(seq, 1, n)

DistReport(count, mx, p10, p50, mn, total) ==
    [count |-> count, max |-> mx, p10 |-> p10, p50 |-> p50, min |-> mn, sum |-> total]
NothingPrinted == DistReport(0, Missing, Missing, Missing, Missing, 0)

(* print_distribution with Min taken from the end of the whole list *)
print_distribution_min_of_list(scores, n) ==
    LET top == SubSeq(scores, 1, Min(n, Len(scores)))
    IN IF top = << >> THEN NothingPrinted
       ELSE DistReport(Min(n, Len(top)), Num(top[1]),
                       IF Len(top) >= 50 THEN Num(top[50]) ELSE Missing,
                       IF Len(top) >= 250 THEN Num(top[250]) ELSE Missing,
                       Num(scores[Len(scores)]), SumOf(top, Len(top)))

(* top = scores[:n]; top[49] and top[249] are positions 50 and 250; Avg is  *)
(* sum(top)/len(top), kept as the sum beside the count                      *)
print_distribution(scores, n) ==
    LET top == SubSeq(scores, 1, Min(n, Len(scores)))
    IN IF top = << >> THEN NothingPrinted
       ELSE DistReport(Min(n, Len(top)), Num(top[1]),
                       IF Len(top) >= 50 THEN Num(top[50]) ELSE Missing,
                       IF Len(top) >= 250 THEN Num(top[250]) ELSE Missing,
                       Num(top[Len(top)]), SumOf(top, Len(top)))

----------------------------------------------------------------------------
(* Specification SpecDistribution: one call of print_distribution *)

(* List lengths and values of n around the positions the function reads *)
DistLengths == {0, 1, 2, 49, 50, 51, 249, 250, 251, 499, 500, 501, 600}
DistCutoffs == {0, 1, 49, 50, 51, 249, 250, 251, 500}

(* Descending lists: strictly falling, constant, and falling in plateaus *)
DescendingList(len, shape) ==
    [i \in 1..len |->
        CASE shape = "falling" -> (len - i) * 7 + 3
          [] shape = "constant" -> 4250
          [] shape = "plateaus" -> ((len - i) \div 40) * 125]

DistInit ==
    /\ pc = "call"
    /\ \E len \in DistLengths : \E shape \in {"falling", "constant", "plateaus"} :
       \E n \in DistCutoffs :
          arg = [fn |-> "print_distribution", scores |-> DescendingList(len, shape), n |-> n]
    /\ ret = Ret("report", 0, NothingPrinted)
    /\ patent = EmptyItem
    /\ cap_cc = None
    /\ edits = 0

CallPrintDistribution ==
    /\ pc = "call"
    /\ ret' = [ret EXCEPT !.s = print_distribution(arg.scores, arg.n)]
    /\ pc' = "returned"
    /\ UNCHANGED <<arg, patent, cap_cc, edits>>

DistNext == CallPrintDistribution

SpecDistribution == DistInit /\ [][DistNext]_vars

(* The first n elements of the list *)
TopSlice == [i \in 1..Min(arg.n, Len(arg.scores)) |-> arg.scores[i]]

(* Max >= P10 >= P50 >= Min over the lines that were printed *)
ReportedInOrder(report) ==
    LET printed == SelectSeq(<< report.max, report.p10, report.p50, report.min >>,
                             LAMBDA v : v # Missing)
    IN \A i \in 1..(Len(printed) - 1) : printed[i].n >= printed[i + 1].n

(* Max, Min and the mean of the slice *)
ReportsMaxMinMean(report) ==
    /\ report.max = Num(TopSlice[1])
    /\ report.min = Num(TopSlice[Len(TopSlice)])
    /\ report.count = Len(TopSlice)
    /\ report.sum = SumOf(TopSlice, Len(TopSlice))

(* C26 as stated: nothing is reported for an empty list; otherwise Max is   *)
(* element 0 of the top-n slice, Min its last element, the mean its mean,   *)
(* P10 the element at index 49, and P50 the element at index 249 only when  *)
(* the slice has at least 250 elements; Max >= P10 >= P50 >= Min.           *)
C26_DistributionOfTopSlice ==
    pc = "returned" =>
        IF arg.scores = << >> THEN ret.s = NothingPrinted
        ELSE /\ TopSlice # << >> /\ ReportsMaxMinMean(ret.s)
             /\ Len(TopSlice) >= 50 /\ ret.s.p10 = Num(TopSlice[50])
             /\ ret.s.p50 = (IF Len(TopSlice) >= 250 THEN Num(TopSlice[250]) ELSE Missing)
             /\ ReportedInOrder(ret.s)

(* C26 amended: nothing is reported when the top-n slice is empty (an empty *)
(* list, or n = 0); otherwise Max, Min and the mean of the slice are        *)
(* reported, P10 (index 49) only when the slice has at least 50 elements    *)
(* and P50 (index 249) only when it has at least 250; the values reported   *)
(* satisfy Max >= P10 >= P50 >= Min.                                        *)
C26_P10OnlyFromFiftyElements ==
    pc = "returned" =>
        IF TopSlice = << >> THEN ret.s = NothingPrinted
        ELSE /\ ReportsMaxMinMean(ret.s)
             /\ ret.s.p10 = (IF Len(TopSlice) >= 50 THEN Num(TopSlice[50]) ELSE Missing)
             /\ ret.s.p50 = (IF Len(TopSlice) >= 250 THEN Num(TopSlice[250]) ELSE Missing)
             /\ ReportedInOrder(ret.s)

(* A slice of 49 elements cut from a longer list: Max, Min and the mean only *)
C26_SliceBelowFifty ==
    /\ pc = "returned"
    /\ Len(arg.scores) = 600 /\ arg.n = 49
    /\ ret.s.p10 = Missing /\ ret.s.max # Missing /\ ret.s.min = Num(arg.scores[49])

----------------------------------------------------------------------------
(* BATCH RE-ENCODER (batch_reencode.py): process_directory in in-place mode *)
(* (no --suffix). One video is followed: level k is the file named          *)
(* movie(.original)^k.mp4, and the content of a file is the number of times *)
(* the original content has been encoded (0 is the original itself, Absent  *)
(* no file).                                                                *)

MaxRuns == 2

Absent == 0 - 1
Levels == 0 .. MaxRuns

(* os.walk order is not fixed: every order of the files found *)
RECURSIVE OrdersOf(_)
OrdersOf(S) ==
    IF S = {} THEN {<< >>}
    ELSE UNION {{<< x >> \o rest : rest \in OrdersOf(S \ {x})} : x \in S}

(* What reencode_file and the output check can report *)
EncodeOutcomes == {"ok", "ok_no_output", "failed", "failed_partial"}

Step1(file, encode, outcome) == [file |-> file, encode |-> encode, outcome |-> outcome]
NoStep == Step1(0, "none", "none")

ReencodeState(disk, before, temp_left, last, always_backup) ==
    [disk |-> disk, before |-> before, temp_left |-> temp_left, last |-> last,
     always_backup |-> always_backup]

ReencodeArgs(backup, force, dry_run, files) ==
    [fn |-> "process_directory", backup |-> backup, force |-> force,
     dry_run |-> dry_run, files |-> files]

ReencodeInit ==
    /\ pc = "idle"
    /\ arg = ReencodeArgs(FALSE, FALSE, FALSE, << >>)
    /\ \E disk \in {[level \in Levels |-> IF level = 0 THEN 0 ELSE Absent]} :
          ret = Ret("disk", 0, ReencodeState(disk, disk, FALSE, NoStep, TRUE))
    /\ patent = EmptyItem
    /\ cap_cc = None
    /\ edits = 0

(* A run starts: the tree is scanned into video_files *)
StartRun(backup, force, dry_run) ==
    /\ pc = "idle"
    /\ ret.n < MaxRuns
    /\ \E files \in OrdersOf({level \in Levels : ret.s.disk[level] # Absent}) :
          arg' = ReencodeArgs(backup, force, dry_run, files)
    /\ ret' = [ret EXCEPT !.n = @ + 1, !.s.last = NoStep,
                          !.s.always_backup = @ /\ backup]
    /\ pc' = "run"
    /\ UNCHANGED <<patent, cap_cc, edits>>

(* The file is left as it is: skipped, failed, or a dry run *)
LeaveFile(encode, outcome) ==
    /\ ret' = [ret EXCEPT !.s.before = ret.s.disk,
                          !.s.last = Step1(Head(arg.files), encode, outcome)]
    /\ arg' = [arg EXCEPT !.files = Tail(@)]
    /\ pc' = pc

(* file_path.rename(backup_path); output_path.rename(file_path) *)
BackupAndReplace(file, replaced) ==
    IF ret.s.disk[file + 1] # Absent /\ ~replaced
    THEN (* rename() onto an existing file raises where the platform refuses it *)
         /\ ret' = [ret EXCEPT !.s.before = ret.s.disk, !.s.temp_left = TRUE,
                               !.s.last = Step1(file, "ok", "raised")]
         /\ pc' = "crashed"
         /\ arg' = arg
    ELSE /\ ret' = [ret EXCEPT !.s.before = ret.s.disk,
                               !.s.disk = [@ EXCEPT ![file + 1] = ret.s.disk[file],
                                                    ![file] = ret.s.disk[file] + 1],
                               !.s.last = Step1(file, "ok", "backed_up")]
         /\ arg' = [arg EXCEPT !.files = Tail(@)]
         /\ pc' = pc

(* file_path.unlink(); output_path.rename(file_path) *)
DeleteAndReplace(file) ==
    /\ ret' = [ret EXCEPT !.s.before = ret.s.disk,
                          !.s.disk = [@ EXCEPT ![file] = ret.s.disk[file] + 1],
                          !.s.last = Step1(file, "ok", "replaced")]
    /\ arg' = [arg EXCEPT !.files = Tail(@)]
    /\ pc' = pc

(* One iteration of the loop over video_files. probe is what should_reencode *)
(* decides from ffprobe, encode what ffmpeg does, replaced whether rename()  *)
(* onto an existing backup replaces it (POSIX) or raises (Windows).          *)
ProcessFile(probe, encode, replaced) ==
    /\ pc = "run"
    /\ arg.files # << >>
    /\ LET file == Head(arg.files)
       IN IF ~(arg.force \/ probe) THEN LeaveFile("none", "skipped")
          ELSE IF arg.backup /\ ret.s.disk[file + 1] # Absent /\ ~arg.force
               THEN LeaveFile("none", "skipped")
          ELSE IF arg.dry_run THEN LeaveFile("none", "dry_run")
          ELSE IF encode # "ok" THEN LeaveFile(encode, "failed")
          ELSE IF arg.backup THEN BackupAndReplace(file, replaced)
          ELSE DeleteAndReplace(file)
    /\ UNCHANGED <<patent, cap_cc, edits>>

(* return stats *)
EndRun ==
    /\ pc = "run"
    /\ arg.files = << >>
    /\ pc' = "idle"
    /\ UNCHANGED <<arg, ret, patent, cap_cc, edits>>

ReencodeNext ==
    \/ \E backup, force, dry_run \in BOOLEAN : StartRun(backup, force, dry_run)
    \/ \E probe, replaced \in BOOLEAN : \E encode \in EncodeOutcomes :
          ProcessFile(probe, encode, replaced)
    \/ EndRun

SpecReencode == ReencodeInit /\ [][ReencodeNext]_vars

(* C27: the original video is never lost. In in-place mode the original is   *)
(* renamed or deleted only after the encode reported success and the output  *)
(* exists; a failed encode leaves the original untouched and no temporary    *)
(* output; and when every run used --backup the original content is still   *)
(* on disk after any sequence of runs, repeated runs and --force included.   *)
C27_OriginalNeverLost ==
    /\ ret.s.last.outcome \in {"replaced", "backed_up"} => ret.s.last.encode = "ok"
    /\ ret.s.last.outcome = "failed" => (ret.s.disk = ret.s.before /\ ~ret.s.temp_left)
    /\ ret.s.always_backup => \E level \in Levels : ret.s.disk[level] = 0

----------------------------------------------------------------------------
(* The rows check k of Parts 2 and 3 would compare under another CAP_CC *)
RowsUnderCap(k, cap) ==
    IF k = 1 THEN V2Rows(arg.old_v2, "unified", cap, 1)
    ELSE IF k <= 1 + Len(V2Names) THEN V2Rows(arg.old_v2, V2Names[k - 1], cap, 1)
    ELSE IF k = 2 + Len(V2Names) THEN V3Rows(arg.old_v3, "executive", cap, 1)
    ELSE IF k = 3 + Len(V2Names) THEN V3Rows(arg.old_v3, "consensus", cap, 1)
    ELSE V3Rows(arg.old_v3, V3CheckNames[k - 3 - Len(V2Names)], cap, 1)

(* C28: in the regression checks of Parts 2 and 3 the recomputed score of    *)
(* every exported record, and with it the record's match or mismatch, is the *)
(* same for every value of the cap option: the same as with no cap.          *)
C28_RegressionIgnoresCap ==
    \A k \in DOMAIN ret.s :
        LET rows == RowsOfCheck(k)
            uncapped == RowsUnderCap(k, None)
        IN /\ \A i \in DOMAIN rows : rows[i].computed = uncapped[i].computed
           /\ ret.s[k].match_count =
                 Classify(uncapped, ToleranceOfCheck(k), 1, 0, << >>).match_count

----------------------------------------------------------------------------
(* What the call that returned would have returned without a cap *)
UncappedResult ==
    CASE arg.fn = "compute_old_v2" ->
            LET r == compute_old_v2(patent, None) IN IF r.k = "raise" THEN OfValue(r) ELSE r
      [] arg.fn = "compute_old_v3" -> Ret("scores", 0, compute_old_v3(patent, None))
      [] arg.fn = "compute_new_executive" -> OfValue(compute_new_executive(patent, None))

(* C29: for every cap of 100 or more, the default cap of a bare --cap-cc     *)
(* included, every score of compute_old_v2, compute_old_v3 and               *)
(* compute_new_executive equals the uncapped score, for every item.          *)
C29_CapOfHundredChangesNoScore ==
    (/\ pc = "returned"
     /\ arg.fn \in {"compute_old_v2", "compute_old_v3", "compute_new_executive"}
     /\ cap_cc.k = "num" /\ cap_cc.n >= 1000)
    => ret = UncappedResult

(* The same for the items whose competitor_citations is a number or absent *)
CapOfHundredOnNumericCitations ==
    (/\ pc = "returned"
     /\ arg.fn \in {"compute_old_v2", "compute_old_v3", "compute_new_executive"}
     /\ cap_cc.k = "num" /\ cap_cc.n >= 1000
     /\ patent["competitor_citations"] # None)
    => ret = UncappedResult

=============================================================================
